---- MODULE Spec2Model ----
(***************************************************************************)
(* Enhanced ShockBurst driver: the interrupt-driven protocol state machine *)
(* (irq.rs), the radio wrapper (peripherals.rs), the payload framing       *)
(* (payload.rs) and the application handle (app.rs), over two framed SPSC  *)
(* queues (bbqueue, an external collaborator).                             *)
(*                                                                         *)
(* The driver, its peripherals and both queues are one record `drv`; every *)
(* method of the source is an operator from such a record to the record    *)
(* after the call, so that a handler is the composition of the calls it    *)
(* makes.  The RADIO and TIMER peripherals and the NVIC are modelled by    *)
(* the registers the code reads and writes; the hardware's own steps       *)
(* (end of a transmission, a reception, a timer compare) are actions.      *)
(***************************************************************************)
EXTENDS Integers, Sequences, FiniteSets, TLC

VARIABLES drv,      \* EsbIrq + EsbRadio + RADIO/TIMER/NVIC registers + both queues
          app,      \* what the application holds: the PayloadW of grant_packet
          obs       \* what the last interrupt invocation observed and returned

vars == <<drv, app, obs>>

(***************************** program constants ***************************)
RX_WAIT_FOR_ACK_TIMEOUT_US_2MBPS == 120
RETRANSMIT_DELAY_US_OFFSET == 62
RETRANSMIT_DELAY == 500
MAXIMUM_TRANSMIT_ATTEMPTS == 3
ENABLED_PIPES == 255
RAMP_UP_TIME == 140
NUM_PIPES == 8
HEADER_SIZE == 4
DEFAULT_MAXIMUM_PAYLOAD_SIZE == 252

(********************************* bounds **********************************)
\* the payload length of the frames the application and the peer send
MaxLen == 1
\* frames of MaxLen payload bytes the app->radio queue has room for
OutFrames == 2
\* bytes the radio->app queue has room for beside one grant of
\* maximum_payload_size + 4 bytes: one frame of MaxLen payload bytes
InSpare == 5

\* Option<T>: None is the empty sequence, Some(x) the sequence of x alone
None == <<>>
Some(x) == <<x>>
Unwrap(o) == o[1]
\* a retained RX write-grant (its bytes are the radio's receive buffer, rxbuf)
RxGrant == Some("PayloadW")

\* a call's result: the driver after the call and the returned value
Ret(s, r) == [s |-> s, ret |-> r]

Min(a, b) == IF a < b THEN a ELSE b

Pipes == 0 .. (NUM_PIPES - 1)

\* capacity in bytes of the app->radio queue (OUTGOING_LEN)
OutCap == OutFrames * (HEADER_SIZE + MaxLen)
\* capacity in bytes of the radio->app queue (INCOMING_LEN)
InCap == DEFAULT_MAXIMUM_PAYLOAD_SIZE + HEADER_SIZE + InSpare

(******************************** Config ***********************************)
DefaultConfig ==
    [ wait_for_ack_timeout      |-> RX_WAIT_FOR_ACK_TIMEOUT_US_2MBPS,
      retransmit_delay          |-> RETRANSMIT_DELAY,
      maximum_transmit_attempts |-> MAXIMUM_TRANSMIT_ATTEMPTS,
      enabled_pipes             |-> ENABLED_PIPES,
      maximum_payload_size      |-> DEFAULT_MAXIMUM_PAYLOAD_SIZE ]

(****************************** framed queues ******************************)
\* A queued frame: the four header bytes (rssi left out) and `length` payload
\* bytes; its size in the queue is HEADER_SIZE + length.

RECURSIVE Used(_)
Used(q) == IF q = <<>> THEN 0 ELSE HEADER_SIZE + Head(q).length + Used(Tail(q))

\* FrameProducer::grant(n): refused while a write-grant is outstanding or when
\* the committed frames leave no room for n more bytes.
CanGrant(q, cap, inProgress, n) == ~inProgress /\ Used(q) + n <= cap

(************************** headers of the inputs **************************)
\* the pipes the peer uses
UsedPipes == {0, 1}

\* headers of the frames the application enqueues: pipe 1, with and without
\* ack
PtxHeaders == [ pipe : {1}, length : {MaxLen}, pid : {0}, no_ack : BOOLEAN ]

\* PRX: the packets on air: the matched pipe, the CRC the radio computed and
\* the header bytes DMA writes
RxPackets ==
    { [pipe |-> p, crc |-> k[1], pid |-> k[2], no_ack |-> n, length |-> MaxLen] :
         p \in UsedPipes, k \in { <<0, 0>>, <<1, 1>> }, n \in BOOLEAN }

(******************************* EsbTimer **********************************)
\* CC[0] is the retransmit compare, CC[1] the ack-timeout compare.  `phase`
\* abstracts the counter: 0 before the lower of CC[1] and CC[0], 1 between
\* the two, 2 after both.
set_interrupt_retransmit(s, micros) ==
    [s EXCEPT !.cc0 = micros, !.ev0 = FALSE, !.inten0 = TRUE,
              !.phase = 0, !.timer_run = TRUE]

clear_interrupt_retransmit(s) ==
    [s EXCEPT !.inten0 = FALSE, !.ev0 = FALSE, !.timer_run = FALSE]

\* the counter captured into CC[1] is the one tasks_clear has just reset
set_interrupt_ack(s, micros) ==
    [s EXCEPT !.cc1 = 0 + micros, !.ev1 = FALSE, !.inten1 = TRUE]

clear_interrupt_ack(s) ==
    [s EXCEPT !.inten1 = FALSE, !.ev1 = FALSE]

(******************************* EsbRadio **********************************)
disable_disabled_interrupt(s) == [s EXCEPT !.inten_disabled = FALSE]

\* stop() that keeps the RX write-grant
stop_keeping_rx_grant(s) ==
    [disable_disabled_interrupt(s) EXCEPT
        !.shorts_rxen = FALSE, !.shorts_txen = FALSE,
        !.radio_hw = "disabled", !.events_disabled = FALSE,
        !.tx_grant = None]

\* stop(): both short-cuts off, `disabled` interrupt off, radio disabled, the
\* event cleared, both retained grants dropped (dropped, not released).
stop(s) ==
    [disable_disabled_interrupt(s) EXCEPT
        !.shorts_rxen = FALSE, !.shorts_txen = FALSE,
        !.radio_hw = "disabled", !.events_disabled = FALSE,
        !.tx_grant = None, !.rx_grant = None]

\* transmit(payload, ack): with `ack` INTENSET enables DISABLED and READY,
\* without it DISABLED alone; EVENTS_DISABLED and EVENTS_READY are cleared
\* before TXEN
transmit(s, payload, ack) ==
    [s EXCEPT
        !.shorts_rxen = IF ack THEN TRUE ELSE @,
        !.inten_disabled = TRUE,
        !.inten_ready = IF ack THEN TRUE ELSE @,
        !.txaddress = payload.pipe,
        !.rxaddresses = {payload.pipe},
        !.packetptr = "tx",
        !.events_disabled = FALSE,
        !.events_ready = FALSE,
        !.radio_hw = "tx",
        !.tx_grant = Some(payload)]

\* FrameGrantR::release of the retained outgoing frame: the head leaves the queue
release_tx(s) == [s EXCEPT !.atr = Tail(@), !.tx_grant = None]

finish_tx_no_ack(s) ==
    disable_disabled_interrupt(IF s.tx_grant # None THEN release_tx(s) ELSE s)

prepare_for_ack_keeping_shortcut(s) ==
    [s EXCEPT !.packetptr = "rx", !.rx_grant = RxGrant]

prepare_for_ack(s) ==
    [s EXCEPT !.packetptr = "rx", !.rx_grant = RxGrant, !.shorts_rxen = FALSE]

\* the frame the radio side commits: the DMA-written length and pid_no_ack,
\* the pipe stamped by the driver
RxFrame(s, pipe) ==
    [ pipe |-> pipe, length |-> s.rxbuf.length, pid |-> s.rxbuf.pid,
      no_ack |-> s.rxbuf.no_ack ]

commit_rx_unstamped(s, pipe) ==
    [s EXCEPT !.rta = Append(@, RxFrame(s, 0)), !.rx_grant = None]

\* PayloadW::commit_all on the retained RX write-grant
commit_rx(s, pipe) ==
    [s EXCEPT !.rta = Append(@, RxFrame(s, pipe)), !.rx_grant = None]

check_ack_keeping_tx(s) ==
    IF s.crcstatus
    THEN IF s.tx_grant = None THEN s
         ELSE IF s.rx_grant = None THEN [s EXCEPT !.tx_grant = None]
         ELSE [commit_rx(s, Unwrap(s.tx_grant).pipe) EXCEPT !.tx_grant = None]
    ELSE [s EXCEPT !.tx_grant = None, !.rx_grant = None]

\* check_ack(): `ret` is Ok(true) / Ok(false) / Err(InternalError)
check_ack_ret(s) ==
    IF s.crcstatus
    THEN IF s.tx_grant = None \/ s.rx_grant = None THEN "InternalError" ELSE "true"
    ELSE "false"

check_ack(s) ==
    IF s.crcstatus
    THEN IF s.tx_grant = None THEN s
         ELSE IF s.rx_grant = None THEN [s EXCEPT !.tx_grant = None]
         ELSE commit_rx(release_tx(s), Unwrap(s.tx_grant).pipe)
    ELSE [s EXCEPT !.tx_grant = None, !.rx_grant = None]

\* the pipes whose bit is set in a RXADDRESSES value
enabled_addresses(bits) == { p \in Pipes : (bits \div (2 ^ p)) % 2 = 1 }

\* PRX: start_receiving(rx_buf, enabled_pipes)
radio_start_receiving(s) ==
    [s EXCEPT !.shorts_txen = TRUE, !.inten_disabled = TRUE, !.packetptr = "rx",
              !.rxaddresses = enabled_addresses(s.config.enabled_pipes),
              !.events_disabled = FALSE, !.events_ready = FALSE,
              !.radio_hw = "rx", !.rx_grant = RxGrant]

\* check_packet, `if ack` branch: the ACK payload and the turn-around short-cuts
ack_payload(s, pipe, repeated) ==
    LET s1 == [s EXCEPT !.txaddress = pipe]
        s2 == IF repeated THEN s1
              ELSE IF s1.tx_grant # None THEN release_tx(s1) ELSE s1
        s3 == IF repeated THEN s2
              ELSE [s2 EXCEPT !.tx_grant = IF s2.atr # <<>> THEN Some(Head(s2.atr))
                                            ELSE None]
        useTx == IF repeated THEN pipe = s.cached_pipe /\ s.tx_grant # None
                 ELSE s3.tx_grant # None
    IN  [s3 EXCEPT !.packetptr = IF useTx THEN "tx" ELSE "fallback",
                   !.shorts_txen = FALSE, !.shorts_rxen = TRUE]

\* check_packet(consumer): `ret` is the RxPayloadState or InternalError
check_packet(s) ==
    IF ~s.crcstatus
    THEN Ret([stop(s) EXCEPT !.shorts_txen = TRUE, !.inten_disabled = TRUE,
                             !.radio_hw = "rx"], "BadCRC")
    ELSE IF s.rx_grant = None THEN Ret(s, "InternalError")
    ELSE LET pipe == s.rxmatch
             crc == s.rxcrc
             pid == s.rxbuf.pid
             ack == ~s.rxbuf.no_ack
             repeated == s.last_crc[pipe] = crc /\ s.last_pid[pipe] = pid
             s1 == IF ack THEN ack_payload(s, pipe, repeated) ELSE stop(s)
             s2 == [s1 EXCEPT !.last_crc[pipe] = crc, !.last_pid[pipe] = pid,
                              !.cached_pipe = pipe]
         IN  IF repeated
             THEN Ret(s1, IF ack THEN "RepeatedAck" ELSE "RepeatedNoAck")
             ELSE IF s2.rx_grant = None THEN Ret(s2, "InternalError")
             ELSE Ret(commit_rx(s2, pipe), IF ack THEN "Ack" ELSE "NoAck")

\* complete_rx_ack(rx_buf): `new` tells whether rx_buf is Some(grant)
complete_rx_ack_ret(s, new) ==
    IF ~new /\ s.rx_grant = None THEN "InternalError" ELSE "Ok"

complete_rx_ack_releasing(s, new) ==
    IF ~new /\ s.rx_grant = None THEN s
    ELSE [(IF ~new /\ s.tx_grant # None THEN release_tx(s) ELSE s) EXCEPT
             !.rx_grant = RxGrant, !.packetptr = "rx",
             !.shorts_rxen = FALSE, !.shorts_txen = TRUE]

complete_rx_ack(s, new) ==
    IF ~new /\ s.rx_grant = None THEN s
    ELSE [s EXCEPT !.rx_grant = RxGrant, !.packetptr = "rx",
                   !.shorts_rxen = FALSE, !.shorts_txen = TRUE]

complete_rx_no_ack(s, new) ==
    LET s1 == IF new THEN [s EXCEPT !.packetptr = "rx", !.rx_grant = RxGrant] ELSE s
    IN  [s1 EXCEPT !.shorts_txen = TRUE, !.inten_disabled = TRUE, !.radio_hw = "rx"]

(********************************* EsbIrq **********************************)
\* FrameConsumer::read on the app->radio queue: None while a read-grant is
\* outstanding (the radio wrapper's tx_grant) or the queue is empty
read_from_app(s) ==
    IF s.tx_grant # None \/ s.atr = <<>> THEN None ELSE Some(Head(s.atr))

\* FrameProducer::grant(maximum_payload_size + header_size) on the radio->app queue
grant_to_app_ok(s) ==
    CanGrant(s.rta, InCap, s.rx_grant # None,
             s.config.maximum_payload_size + HEADER_SIZE)

check_and_clear_flags(s) ==
    [s EXCEPT !.events_disabled = FALSE, !.timer_flag = FALSE, !.nvic_radio = FALSE]

send_packet(s) ==
    LET packet == read_from_app(s) IN
    IF packet # None
    THEN LET ack == ~Unwrap(packet).no_ack IN
         [transmit(s, Unwrap(packet), ack) EXCEPT
             !.state = IF ack THEN "TransmitterTx" ELSE "TransmitterTxNoAck"]
    ELSE [disable_disabled_interrupt(s) EXCEPT !.state = "IdleTx"]

attempts_exhausted_one_early(s) == s.attempts >= s.config.maximum_transmit_attempts

\* `self.attempts > self.config.maximum_transmit_attempts`
attempts_exhausted(s) == s.attempts > s.config.maximum_transmit_attempts

\* `self.attempts += 1` in u8: None is the panic of a build with overflow
\* checks, without them the counter wraps
attempts_incremented(s) ==
    IF s.attempts < 255 THEN Some(s.attempts + 1)
    ELSE IF s.overflow_checks THEN None ELSE Some(0)

\* ptx_wait_ack that takes the next frame without resetting attempts when the
\* budget is spent
ptx_wait_ack_keeping_attempts(s, disabled) ==
    LET s1 == IF disabled THEN clear_interrupt_ack(s) ELSE s
        ack == IF disabled THEN check_ack_ret(s1) ELSE "false"
        s2 == IF disabled THEN check_ack(s1) ELSE s1
        inc == attempts_incremented(s2)
        s3 == IF ack = "true"
              THEN send_packet([clear_interrupt_retransmit(s2) EXCEPT !.attempts = 0])
              ELSE IF inc = None THEN stop(s2)
              ELSE [stop(s2) EXCEPT !.attempts = Unwrap(inc),
                                    !.state = "TransmitterWaitRetransmit"]
    IN  IF ack = "InternalError" THEN Ret(s2, "InternalError")
        ELSE IF ack # "true" /\ inc = None THEN Ret(s3, "panic")
        ELSE IF attempts_exhausted(s3)
        THEN LET s4 == clear_interrupt_retransmit(s3)
                 s5 == IF read_from_app(s4) # None
                       THEN [s4 EXCEPT !.atr = Tail(@)] ELSE s4
             IN  Ret(send_packet(s5), "MaximumAttempts")
        ELSE Ret(s3, "Ok")

ptx_wait_ack(s, disabled) ==
    LET s1 == IF disabled THEN clear_interrupt_ack(s) ELSE s
        ack == IF disabled THEN check_ack_ret(s1) ELSE "false"
        s2 == IF disabled THEN check_ack(s1) ELSE s1
        inc == attempts_incremented(s2)
        s3 == IF ack = "true"
              THEN send_packet([clear_interrupt_retransmit(s2) EXCEPT !.attempts = 0])
              ELSE IF inc = None THEN stop(s2)
              ELSE [stop(s2) EXCEPT !.attempts = Unwrap(inc),
                                    !.state = "TransmitterWaitRetransmit"]
    IN  IF ack = "InternalError" THEN Ret(s2, "InternalError")
        ELSE IF ack # "true" /\ inc = None THEN Ret(s3, "panic")
        ELSE IF attempts_exhausted(s3)
        THEN LET s4 == clear_interrupt_retransmit(s3)
                 s5 == IF read_from_app(s4) # None
                       THEN [s4 EXCEPT !.atr = Tail(@)] ELSE s4
             IN  Ret(send_packet([s5 EXCEPT !.attempts = 0]), "MaximumAttempts")
        ELSE Ret(s3, "Ok")

\* `self.config.retransmit_delay - RAMP_UP_TIME` in u16: None is the panic of
\* a build with overflow checks
retransmit_micros(c, overflow_checks) ==
    LET diff == c.retransmit_delay - RAMP_UP_TIME
    IN  IF diff >= 0 THEN Some(diff)
        ELSE IF overflow_checks THEN None ELSE Some(diff + 65536)

\* `self.config.wait_for_ack_timeout + RAMP_UP_TIME` in u16
ack_micros(c, overflow_checks) ==
    LET sum == c.wait_for_ack_timeout + RAMP_UP_TIME
    IN  IF sum < 65536 THEN Some(sum)
        ELSE IF overflow_checks THEN None ELSE Some(sum % 65536)

\* TransmitterTx: the two timers armed after prepare_for_ack
arm_timers(s) ==
    LET r == retransmit_micros(s.config, s.overflow_checks)
        a == ack_micros(s.config, s.overflow_checks)
    IN  IF r = None THEN Ret(s, "panic")
        ELSE IF a = None THEN Ret(set_interrupt_retransmit(s, Unwrap(r)), "panic")
        ELSE Ret(set_interrupt_ack(set_interrupt_retransmit(s, Unwrap(r)),
                                   Unwrap(a)), "Ok")

ptx_transmitter_tx_releasing(s, disabled) ==
    IF ~disabled /\ s.debug_assertions THEN Ret(s, "panic")
    ELSE IF grant_to_app_ok(s)
    THEN arm_timers([prepare_for_ack(s) EXCEPT !.state = "TransmitterWaitAck"])
    ELSE Ret([finish_tx_no_ack(s) EXCEPT !.state = "IdleTx"], "IncomingQueueFull")

\* radio_interrupt, StatePTX::TransmitterTx; `debug_assert!(disabled)` panics
\* in a build with debug assertions, before anything else is done
ptx_transmitter_tx(s, disabled) ==
    IF ~disabled /\ s.debug_assertions THEN Ret(s, "panic")
    ELSE IF grant_to_app_ok(s)
    THEN arm_timers([prepare_for_ack(s) EXCEPT !.state = "TransmitterWaitAck"])
    ELSE Ret([stop(s) EXCEPT !.state = "IdleTx"], "IncomingQueueFull")

ptx_radio_interrupt_unguarded(s0) ==
    LET disabled == s0.events_disabled
        timer == s0.timer_flag
        user_event == ~disabled /\ ~timer
        s == check_and_clear_flags(s0)
    IN  CASE s.state = "IdleTx" ->
                IF user_event THEN Ret(send_packet(s), "Ok")
                ELSE IF s.debug_assertions THEN Ret(s, "panic")
                ELSE Ret(s, "Ok")
          [] s.state = "TransmitterTxNoAck" ->
                Ret(send_packet(finish_tx_no_ack(s)), "Ok")
          [] s.state = "TransmitterTx" -> ptx_transmitter_tx(s, disabled)
          [] s.state = "TransmitterWaitAck" -> ptx_wait_ack(s, disabled)
          [] s.state = "TransmitterWaitRetransmit" ->
                IF ~timer /\ s.debug_assertions THEN Ret(s, "panic")
                ELSE Ret(send_packet(s), "Ok")

\* EsbIrq<StatePTX>::radio_interrupt.  The flags are read and cleared first; a
\* failing debug_assert! (IdleTx: user_event, TransmitterTx: disabled,
\* TransmitterWaitRetransmit: timer) panics in a build with debug assertions
\* and leaves the state as it was.  TransmitterWaitAck's debug_assert!(timer)
\* is reached with `disabled` false and `user_event` false only: it holds.
ptx_radio_interrupt(s0) ==
    LET disabled == s0.events_disabled
        timer == s0.timer_flag
        user_event == ~disabled /\ ~timer
        s == check_and_clear_flags(s0)
    IN  IF user_event /\ s.state # "IdleTx" THEN Ret(s, "Ok")
        ELSE CASE s.state = "IdleTx" ->
                    IF user_event THEN Ret(send_packet(s), "Ok")
                    ELSE IF s.debug_assertions THEN Ret(s, "panic")
                    ELSE Ret(s, "Ok")
               [] s.state = "TransmitterTxNoAck" ->
                    Ret(send_packet(finish_tx_no_ack(s)), "Ok")
               [] s.state = "TransmitterTx" -> ptx_transmitter_tx(s, disabled)
               [] s.state = "TransmitterWaitAck" -> ptx_wait_ack(s, disabled)
               [] s.state = "TransmitterWaitRetransmit" ->
                    IF ~timer /\ s.debug_assertions THEN Ret(s, "panic")
                    ELSE Ret(send_packet(s), "Ok")

\* prepare_receiver(f): the refused grant; the granted case is f's
prepare_receiver_refused(s) ==
    Ret([stop(s) EXCEPT !.state = "IdleRx"], "IncomingQueueFull")

\* EsbIrq<StatePRX>::start_receiving
start_receiving(s) ==
    IF s.state = "IdleRx"
    THEN IF grant_to_app_ok(s)
         THEN Ret([radio_start_receiving(s) EXCEPT !.state = "Receiver"], "Ok")
         ELSE prepare_receiver_refused(s)
    ELSE Ret(s, "Ok")

\* EsbIrq<StatePRX>::stop_receiving
stop_receiving(s) ==
    [check_and_clear_flags(clear_interrupt_ack(clear_interrupt_retransmit(stop(s))))
        EXCEPT !.state = "IdleRx"]

\* radio_interrupt, StatePRX::Receiver; `debug_assert!(disabled)` panics in a
\* build with debug assertions before check_packet is called
prx_receiver(s, disabled) ==
    LET c == check_packet(s) IN
    CASE ~disabled /\ s.debug_assertions -> Ret(s, "panic")
      [] OTHER -> CASE c.ret = "InternalError" -> Ret(c.s, "InternalError")
             [] c.ret = "BadCRC" -> Ret(c.s, "Ok")
             [] c.ret = "NoAck" ->
                   IF grant_to_app_ok(c.s)
                   THEN Ret(complete_rx_no_ack(c.s, TRUE), "Ok")
                   ELSE prepare_receiver_refused(c.s)
             [] c.ret = "RepeatedNoAck" -> Ret(complete_rx_no_ack(c.s, FALSE), "Ok")
             [] c.ret = "Ack" -> Ret([c.s EXCEPT !.state = "TransmittingAck"], "Ok")
             [] c.ret = "RepeatedAck" ->
                   Ret([c.s EXCEPT !.state = "TransmittingRepeatedAck"], "Ok")

\* EsbIrq<StatePRX>::radio_interrupt.  A failing debug_assert! (Receiver,
\* TransmittingAck, TransmittingRepeatedAck: disabled; IdleRx: user_event)
\* panics in a build with debug assertions, the flags already cleared
prx_radio_interrupt(s0) ==
    LET disabled == s0.events_disabled
        timer == s0.timer_flag
        user_event == ~disabled /\ ~timer
        s == check_and_clear_flags(s0)
    IN  IF user_event /\ s.state # "IdleRx" THEN Ret(s, "Ok")
        ELSE CASE s.state = "Receiver" -> prx_receiver(s, disabled)
               [] s.state = "TransmittingAck" ->
                    IF ~disabled /\ s.debug_assertions THEN Ret(s, "panic")
                    ELSE IF grant_to_app_ok(s)
                    THEN Ret([complete_rx_ack(s, TRUE) EXCEPT !.state = "Receiver"], "Ok")
                    ELSE prepare_receiver_refused(s)
               [] s.state = "TransmittingRepeatedAck" ->
                    IF ~disabled /\ s.debug_assertions THEN Ret(s, "panic")
                    ELSE IF complete_rx_ack_ret(s, FALSE) = "InternalError"
                    THEN Ret(s, "InternalError")
                    ELSE Ret([complete_rx_ack(s, FALSE) EXCEPT !.state = "Receiver"], "Ok")
               [] s.state = "IdleRx" ->
                    IF ~user_event /\ s.debug_assertions THEN Ret(s, "panic")
                    ELSE start_receiving(s)

timer_interrupt_not_pending(s) ==
    LET s1 == IF s.ev0 THEN clear_interrupt_retransmit(s) ELSE s
        s2 == IF s.ev1 THEN clear_interrupt_ack(s1) ELSE s1
    IN  [s2 EXCEPT !.timer_flag = TRUE, !.nvic_timer = FALSE]

\* IrqTimer::timer_interrupt
timer_interrupt(s) ==
    LET s1 == IF s.ev0 THEN clear_interrupt_retransmit(s) ELSE s
        s2 == IF s.ev1 THEN clear_interrupt_ack(s1) ELSE s1
    IN  [s2 EXCEPT !.timer_flag = TRUE, !.nvic_radio = TRUE, !.nvic_timer = FALSE]

(****************************** interrupt lines ****************************)
\* the RADIO interrupt is requested: pended by software (start_tx, the timer
\* handler) or by an event whose INTEN bit is set, DISABLED or READY
RadioIrqPending(s) ==
    \/ s.nvic_radio
    \/ (s.events_disabled /\ s.inten_disabled)
    \/ (s.events_ready /\ s.inten_ready)

\* the requests a call of radio_interrupt takes back (check_and_clear_flags
\* clears EVENTS_DISABLED and the pended bit; nothing clears EVENTS_READY
\* but the next transmit or start_receiving)
RadioIrqClearable(s) == s.nvic_radio \/ (s.events_disabled /\ s.inten_disabled)

TimerIrqPending(s) == s.nvic_timer \/ (s.ev0 /\ s.inten0) \/ (s.ev1 /\ s.inten1)

\* a panic ends the program; the peripherals keep running
Running == obs.ret # "panic"

\* the application and the owner of the interrupt handle call the driver from
\* thread mode: a pending interrupt pre-empts them
ThreadMode == Running /\ ~RadioIrqPending(drv) /\ ~TimerIrqPending(drv)

(********************************* state ***********************************)
\* EsbBuffer::try_split, EsbRadio::new / init, EsbTimer::init; `split` tells
\* that the queues of the static buffer are split into handles, `rta_read`
\* that the application holds the PayloadR of the head of the radio->app
\* queue.  overflow_checks and debug_assertions are the two switches of the
\* build (both off in a release profile, both on in a dev profile).
NewDrv(st) ==
    [ state |-> st, attempts |-> 0, config |-> DefaultConfig,
      tx_grant |-> None, rx_grant |-> None,
      last_crc |-> [p \in Pipes |-> 0], last_pid |-> [p \in Pipes |-> 0],
      cached_pipe |-> 0,
      events_disabled |-> FALSE, inten_disabled |-> FALSE,
      events_ready |-> FALSE, inten_ready |-> FALSE,
      shorts_rxen |-> FALSE, shorts_txen |-> FALSE,
      radio_hw |-> "disabled", packetptr |-> "none", txaddress |-> 0,
      rxaddresses |-> {},
      crcstatus |-> FALSE, rxmatch |-> 0, rxcrc |-> 0,
      rxbuf |-> [length |-> 0, pid |-> 0, no_ack |-> FALSE],
      timer_run |-> FALSE, phase |-> 0, cc0 |-> 0, cc1 |-> 0,
      overflow_checks |-> FALSE, debug_assertions |-> FALSE,
      inten0 |-> FALSE, inten1 |-> FALSE, ev0 |-> FALSE, ev1 |-> FALSE,
      timer_flag |-> FALSE, nvic_radio |-> FALSE, nvic_timer |-> FALSE,
      atr |-> <<>>, rta |-> <<>>, rta_read |-> FALSE, split |-> TRUE ]

\* ret: what the last radio_interrupt returned; done: it released a frame from
\* the app->radio queue.  For the frame the last invocations worked on:
\* timeouts, the ack-timeouts handled; cycles, the returns into
\* TransmitterWaitRetransmit.
\* unpended: the application committed a frame and has not called start_tx
\* since; retry: radio_interrupt returned Err(IncomingQueueFull) and the
\* application has not called start_tx since; rel: the parity of the number
\* of frames released so far.
\* PRX: kind, what the last check_packet returned; key, the (pipe, crc, pid,
\* no_ack) of the last CRC-ok reception handled (None after a bad CRC);
\* fresh, that reception did not repeat the key of the one before it;
\* kc, the number of frames it committed; acked, the head of the app->radio
\* queue is a frame whose transmission as ACK payload has completed.
\* call: the method the application or the handle's owner called last; arg,
\* its argument.
NewObs ==
    [ ret |-> "none", done |-> FALSE, timeouts |-> 0, cycles |-> 0,
      unpended |-> FALSE, retry |-> FALSE, rel |-> 0,
      kind |-> "none", key |-> None, fresh |-> FALSE, kc |-> 0,
      acked |-> FALSE,
      call |-> "none", arg |-> None ]

InitPTX ==
    /\ \E debug_assertions \in BOOLEAN :
          drv = [NewDrv("IdleTx") EXCEPT !.debug_assertions = debug_assertions]
    /\ app = None
    /\ obs = NewObs

\* PRX arms no timer and leaves IdleRx only with the DISABLED interrupt
\* enabled: none of the handler's debug assertions can fail, and the build
\* that checks them stands for both (Running is an invariant of SpecPRX)
InitPRX ==
    /\ drv = [NewDrv("IdleRx") EXCEPT !.debug_assertions = TRUE]
    /\ app = None
    /\ obs = NewObs

(***************************** hardware steps ******************************)
\* The handlers are fast against the radio and the timer: a hardware step
\* finds no request a handler would take back (RadioIrqClearable,
\* TimerIrqPending) still waiting.  A READY request no handler takes back
\* does not hold the hardware up.

\* the ramp-up that TXEN or RXEN started ends: READY, and by the READY ->
\* START short-cut the transmission or the reception begins
HwReady ==
    /\ drv.radio_hw \in {"tx", "rx"}
    /\ ~drv.events_ready
    /\ ~RadioIrqClearable(drv) /\ ~TimerIrqPending(drv)
    /\ drv' = [drv EXCEPT !.events_ready = TRUE]
    /\ UNCHANGED <<app, obs>>

\* what the DISABLED event's short-cuts start next
AfterDisabled(s) ==
    IF s.shorts_txen THEN "tx" ELSE IF s.shorts_rxen THEN "rx" ELSE "disabled"

\* the transmission in progress ends: END -> DISABLE -> DISABLED
HwTxDone ==
    /\ drv.radio_hw = "tx"
    /\ drv.events_ready /\ ~drv.events_disabled
    /\ ~RadioIrqClearable(drv)
    /\ drv' = [drv EXCEPT !.events_disabled = TRUE, !.radio_hw = AfterDisabled(drv)]
    /\ UNCHANGED <<app, obs>>

\* PTX: an ACK is received into the packet pointer; the only enabled address
\* is the pipe of the transmission (rxaddresses = 1 << pipe)
HwRxAck ==
    /\ drv.radio_hw = "rx"
    /\ drv.rxaddresses = {drv.txaddress}
    /\ drv.events_ready /\ ~drv.events_disabled
    /\ ~RadioIrqClearable(drv)
    /\ \E pkt \in [ length : {0, MaxLen}, pid : {0}, no_ack : {FALSE} ],
          ok \in BOOLEAN :
          drv' = [drv EXCEPT !.events_disabled = TRUE,
                             !.radio_hw = AfterDisabled(drv),
                             !.crcstatus = ok, !.rxmatch = drv.txaddress,
                             !.rxbuf = pkt]
    /\ UNCHANGED <<app, obs>>

\* the counter reaches CC[1] (ack timeout)
HwCompareAck ==
    /\ drv.timer_run
    /\ drv.phase = (IF drv.cc1 <= drv.cc0 THEN 0 ELSE 1)
    /\ ~RadioIrqClearable(drv) /\ ~TimerIrqPending(drv)
    /\ drv' = [drv EXCEPT !.phase = @ + 1, !.ev1 = TRUE,
                          !.nvic_timer = @ \/ drv.inten1]
    /\ UNCHANGED <<app, obs>>

\* the counter reaches CC[0] (retransmit)
HwCompareRetransmit ==
    /\ drv.timer_run
    /\ drv.phase = (IF drv.cc1 <= drv.cc0 THEN 1 ELSE 0)
    /\ ~RadioIrqClearable(drv) /\ ~TimerIrqPending(drv)
    /\ drv' = [drv EXCEPT !.phase = @ + 1, !.ev0 = TRUE,
                          !.nvic_timer = @ \/ drv.inten0]
    /\ UNCHANGED <<app, obs>>

(***************************** interrupt handlers **************************)
\* the invocation handles an ack timeout: TransmitterWaitAck, timer and no `disabled`
PtxHandlesTimeout(s) ==
    s.state = "TransmitterWaitAck" /\ ~s.events_disabled /\ s.timer_flag

\* the invocation handles a received ACK: TransmitterWaitAck and `disabled`
PtxHandlesAck(s) ==
    s.state = "TransmitterWaitAck" /\ s.events_disabled

\* the counters restart with the first invocation after a release
PtxObserve(s, r) ==
    LET released == Len(r.s.atr) < Len(s.atr)
        timeouts == IF obs.done THEN 0 ELSE obs.timeouts
        cycles == IF obs.done THEN 0 ELSE obs.cycles
    IN  [obs EXCEPT
           !.ret = r.ret,
           !.retry = @ \/ r.ret = "IncomingQueueFull",
           !.rel = IF released THEN 1 - @ ELSE @,
           !.done = released,
           !.timeouts = IF PtxHandlesTimeout(s) THEN timeouts + 1 ELSE timeouts,
           !.cycles = IF r.s.state = "TransmitterWaitRetransmit"
                         /\ s.state # "TransmitterWaitRetransmit"
                      THEN cycles + 1 ELSE cycles]

PtxRadioIsr ==
    /\ Running
    /\ RadioIrqPending(drv)
    /\ LET r == ptx_radio_interrupt(drv) IN
          /\ drv' = r.s
          /\ obs' = PtxObserve(drv, r)
    /\ UNCHANGED app

TimerIsr ==
    /\ Running
    /\ TimerIrqPending(drv)
    /\ drv' = timer_interrupt(drv)
    /\ UNCHANGED <<app, obs>>

\* the invocation handles a reception: Receiver and not a user event
PrxHandlesRx(s) ==
    s.state = "Receiver" /\ (s.events_disabled \/ s.timer_flag)

RxKey(s) == <<s.rxmatch, s.rxcrc, s.rxbuf.pid>>

\* the invocation handles the end of an ACK that carried the retained
\* outgoing frame
PrxHandlesAckSent(s) ==
    /\ s.state \in {"TransmittingAck", "TransmittingRepeatedAck"}
    /\ s.events_disabled
    /\ s.packetptr = "tx" /\ s.tx_grant # None

PrxObserve(s, r) ==
    LET rx == PrxHandlesRx(s)
        c == check_packet(check_and_clear_flags(s))
    IN  [obs EXCEPT
           !.ret = r.ret,
           !.kind = IF rx THEN c.ret ELSE @,
           !.key = IF rx THEN IF s.crcstatus THEN Some(Append(RxKey(s), s.rxbuf.no_ack))
                              ELSE None
                   ELSE @,
           !.fresh = IF rx /\ s.crcstatus
                     THEN obs.key = None \/ SubSeq(Unwrap(obs.key), 1, 3) # RxKey(s)
                     ELSE @,
           !.kc = IF rx THEN Len(r.s.rta) - Len(s.rta) ELSE @,
           !.acked = IF Len(r.s.atr) < Len(s.atr) THEN FALSE
                     ELSE @ \/ PrxHandlesAckSent(s)]

PrxRadioIsr ==
    /\ Running
    /\ RadioIrqPending(drv)
    /\ LET r == prx_radio_interrupt(drv) IN
          /\ drv' = r.s
          /\ obs' = PrxObserve(drv, r)
    /\ UNCHANGED app

\* PRX: a packet on an enabled pipe is received into the packet pointer
HwRxPacket ==
    /\ drv.radio_hw = "rx"
    /\ drv.events_ready /\ ~drv.events_disabled
    /\ ~RadioIrqClearable(drv)
    /\ \E pkt \in { p \in RxPackets : p.pipe \in drv.rxaddresses }, ok \in BOOLEAN :
          drv' = [drv EXCEPT !.events_disabled = TRUE,
                             !.radio_hw = AfterDisabled(drv),
                             !.crcstatus = ok, !.rxmatch = pkt.pipe,
                             !.rxcrc = pkt.crc,
                             !.rxbuf = [length |-> pkt.length, pid |-> pkt.pid,
                                        no_ack |-> pkt.no_ack]]
    /\ UNCHANGED <<app, obs>>

\* EsbIrq<StatePRX>::start_receiving called by the interrupt's owner
PrxStartReceiving ==
    /\ ThreadMode
    /\ LET r == start_receiving(drv) IN
          /\ drv' = r.s
          /\ obs' = [obs EXCEPT !.ret = r.ret]
    /\ UNCHANGED app

\* EsbIrq<StatePRX>::stop_receiving called by the interrupt's owner
PrxStopReceiving ==
    /\ ThreadMode
    /\ drv.state # "IdleRx"
    /\ drv' = stop_receiving(drv)
    /\ UNCHANGED <<app, obs>>

(******************************* application *******************************)
\* FrameProducer::grant as EsbApp::grant_packet maps its result; `a` is the
\* outstanding write-grant of the application, if any
grant_packet_ret_ignoring_grant(s, a, header) ==
    IF ~CanGrant(s.atr, OutCap, FALSE, header.length + HEADER_SIZE)
    THEN "OutgoingQueueFull"
    ELSE "Ok"

\* EsbApp::grant_packet(header): the returned Ok / Err
grant_packet_ret(s, a, header) ==
    IF a # None THEN "GrantInProgress"
    ELSE IF ~CanGrant(s.atr, OutCap, FALSE, header.length + HEADER_SIZE)
    THEN "OutgoingQueueFull"
    ELSE "Ok"

\* EsbApp::grant_packet(header): the write-grant the application holds after
\* the call: `len` bytes, the first four of them the header
grant_packet(s, a, header) ==
    IF grant_packet_ret(s, a, header) = "Ok"
    THEN Some([ header |-> header, len |-> header.length + HEADER_SIZE ])
    ELSE a

commit_unclamped(g, used) ==
    [ g.header EXCEPT !.length = used ]

\* PayloadW::commit(used): the frame committed, payload_len bytes of payload
commit(g, used) ==
    [ g.header EXCEPT !.length = Min(@, used) ]

\* PayloadW::commit_all: the frame committed
commit_all(g) == g.header

\* EsbApp::grant_packet(header) returning Ok: the application holds the
\* PayloadW until it commits it.  (A refused call changes nothing.)
GrantPacket(header) ==
    /\ ThreadMode
    /\ grant_packet_ret(drv, app, header) = "Ok"
    /\ app' = grant_packet(drv, app, header)
    /\ UNCHANGED drv

\* PayloadW::commit_all on the grant the application holds
CommitAll ==
    /\ ThreadMode
    /\ app # None
    /\ drv' = [drv EXCEPT !.atr = Append(@, commit_all(Unwrap(app)))]
    /\ app' = None

PtxGrantPacket ==
    /\ \E h \in PtxHeaders : GrantPacket(h)
    /\ UNCHANGED obs

PtxCommitAll ==
    /\ CommitAll
    /\ obs' = [obs EXCEPT !.unpended = TRUE]

PrxGrantPacket ==
    /\ \E h \in { x \in PtxHeaders : ~x.no_ack } : GrantPacket(h)
    /\ UNCHANGED obs

PrxCommitAll ==
    /\ CommitAll
    /\ UNCHANGED obs

\* EsbApp::start_tx
start_tx ==
    /\ ThreadMode
    /\ drv' = [drv EXCEPT !.nvic_radio = TRUE]
    /\ obs' = [obs EXCEPT !.unpended = FALSE, !.retry = FALSE]
    /\ UNCHANGED app

\* EsbApp::read_packet returning Some: FrameConsumer::read hands out the
\* head of the radio->app queue unless a read-grant is outstanding; the
\* application holds the PayloadR
read_packet ==
    /\ ThreadMode
    /\ drv.rta # <<>> /\ ~drv.rta_read
    /\ drv' = [drv EXCEPT !.rta_read = TRUE]
    /\ UNCHANGED <<app, obs>>

\* PayloadR::release on the frame the application holds: the head leaves
\* the queue
release ==
    /\ ThreadMode
    /\ drv.rta_read
    /\ drv' = [drv EXCEPT !.rta = Tail(@), !.rta_read = FALSE]
    /\ UNCHANGED <<app, obs>>

\* the PayloadR dropped without release: the read grant is given back, the
\* frame stays at the head and the next read_packet returns it again
PayloadRDrop ==
    /\ ThreadMode
    /\ drv.rta_read
    /\ drv' = [drv EXCEPT !.rta_read = FALSE]
    /\ UNCHANGED <<app, obs>>

NextPTX ==
    \/ PtxRadioIsr
    \/ TimerIsr
    \/ HwReady
    \/ HwTxDone
    \/ HwRxAck
    \/ HwCompareAck
    \/ HwCompareRetransmit
    \/ PtxGrantPacket
    \/ PtxCommitAll
    \/ start_tx
    \/ read_packet
    \/ release
    \/ PayloadRDrop

SpecPTX == InitPTX /\ [][NextPTX]_vars

NextPRX ==
    \/ PrxRadioIsr
    \/ HwReady
    \/ HwRxPacket
    \/ HwTxDone
    \/ PrxStartReceiving
    \/ PrxStopReceiving
    \/ PrxGrantPacket
    \/ PrxCommitAll
    \/ start_tx
    \/ read_packet
    \/ release
    \/ PayloadRDrop

SpecPRX == InitPRX /\ [][NextPRX]_vars

\* PTX under fairness: pending interrupts are dispatched, a ramp-up ends
\* with `ready`, a started transmission with `disabled`, a running timer
\* reaches its compares, the application commits the grants it takes, reads
\* and releases the frames it received and calls start_tx after committing.
\* A peer's ACK is never guaranteed.
FairPTX ==
    /\ WF_vars(PtxRadioIsr) /\ WF_vars(TimerIsr)
    /\ SF_vars(HwReady) /\ SF_vars(HwTxDone)
    /\ SF_vars(HwCompareAck) /\ SF_vars(HwCompareRetransmit)
    /\ WF_vars(PtxCommitAll)
    /\ WF_vars(read_packet) /\ WF_vars(release)
    /\ WF_vars(start_tx /\ obs.unpended)

NextPTXLive ==
    \/ PtxRadioIsr
    \/ TimerIsr
    \/ HwReady
    \/ HwTxDone
    \/ HwRxAck
    \/ HwCompareAck
    \/ HwCompareRetransmit
    \/ PtxGrantPacket
    \/ PtxCommitAll
    \/ start_tx
    \/ read_packet
    \/ release
    \/ PayloadRDrop

SpecPTXLive == InitPTX /\ [][NextPTXLive]_vars /\ FairPTX

(************************ application: write-grants ************************)
\* the payload lengths the application asks for: up to one byte more than the
\* driver is configured for
AppLens == 0 .. (MaxLen + 1)

AppHeaders == [ pipe : {0}, length : AppLens, pid : {0}, no_ack : {TRUE} ]

\* the `used` arguments of PayloadW::commit
AppUsed == 0 .. (MaxLen + 2)

AppGrantPacket ==
    /\ ThreadMode
    /\ \E h \in AppHeaders :
          /\ app' = grant_packet(drv, app, h)
          /\ obs' = [obs EXCEPT !.call = "grant_packet", !.arg = Some(h),
                                !.ret = grant_packet_ret(drv, app, h)]
    /\ UNCHANGED drv

AppCommit ==
    /\ ThreadMode
    /\ app # None
    /\ \E used \in AppUsed :
          /\ drv' = [drv EXCEPT !.atr = Append(@, commit(Unwrap(app), used))]
          /\ obs' = [obs EXCEPT !.call = "commit", !.arg = Some(used),
                                !.unpended = TRUE]
    /\ app' = None

AppCommitAll ==
    /\ ThreadMode
    /\ app # None
    /\ drv' = [drv EXCEPT !.atr = Append(@, commit_all(Unwrap(app)))]
    /\ obs' = [obs EXCEPT !.call = "commit_all", !.arg = None, !.unpended = TRUE]
    /\ app' = None

\* the PayloadW is dropped without commit
AppDrop ==
    /\ ThreadMode
    /\ app # None
    /\ app' = None
    /\ obs' = [obs EXCEPT !.call = "drop", !.arg = None]
    /\ UNCHANGED drv

\* a driver configured for payloads of MaxLen bytes
InitApp ==
    /\ \E debug_assertions \in BOOLEAN :
          drv = [NewDrv("IdleTx") EXCEPT !.config.maximum_payload_size = MaxLen,
                                         !.debug_assertions = debug_assertions]
    /\ app = None
    /\ obs = NewObs

NextApp ==
    \/ AppGrantPacket
    \/ AppCommit
    \/ AppCommitAll
    \/ AppDrop
    \/ start_tx
    \/ PtxRadioIsr
    \/ HwReady
    \/ HwTxDone

SpecApp == InitApp /\ [][NextApp]_vars

(***************************** ConfigBuilder *******************************)
\* the values the builder's setters are called with (u16, u16, u8)
AckTimeouts == {0, 43, 44, 120, 65400, 65473, 65474, 65535}
RetransmitDelays == {0, 140, 141, 182, 183, 500, 65535}

\* ConfigBuilder::check.  `self.0.wait_for_ack_timeout + RETRANSMIT_DELAY_US_OFFSET`
\* is a u16 addition: with overflow checks (debug builds) an overflow panics,
\* without them (release builds) the sum wraps modulo 2^16.
config_check(c, overflow_checks) ==
    LET sum == c.wait_for_ack_timeout + RETRANSMIT_DELAY_US_OFFSET
        bad_ack_timeout == c.wait_for_ack_timeout < 44
        bad_retransmit_delay ==
            \/ c.retransmit_delay <= sum % 65536
            \/ c.retransmit_delay <= RAMP_UP_TIME
        bad_size == c.maximum_payload_size > 252
    IN  IF overflow_checks /\ sum >= 65536 THEN "panic"
        ELSE IF bad_ack_timeout \/ bad_retransmit_delay \/ bad_size
        THEN "InvalidParameters"
        ELSE "Ok"

\* ConfigBuilder::default(); `app` is the builder the application holds
InitConfig ==
    /\ drv = NewDrv("IdleTx")
    /\ app = DefaultConfig
    /\ obs = NewObs

CfgWaitForAckTimeout ==
    /\ \E micros \in AckTimeouts : app' = [app EXCEPT !.wait_for_ack_timeout = micros]
    /\ obs' = [obs EXCEPT !.call = "wait_for_ack_timeout", !.arg = None, !.ret = "none"]
    /\ UNCHANGED drv

CfgRetransmitDelay ==
    /\ \E micros \in RetransmitDelays : app' = [app EXCEPT !.retransmit_delay = micros]
    /\ obs' = [obs EXCEPT !.call = "retransmit_delay", !.arg = None, !.ret = "none"]
    /\ UNCHANGED drv

\* ConfigBuilder::maximum_transmit_attempts(n: u8)
CfgMaximumTransmitAttempts ==
    /\ \E n \in {0, 3, 5, 255} : app' = [app EXCEPT !.maximum_transmit_attempts = n]
    /\ obs' = [obs EXCEPT !.call = "maximum_transmit_attempts", !.arg = None, !.ret = "none"]
    /\ UNCHANGED drv

\* ConfigBuilder::enabled_pipes(enabled_pipes: u8)
CfgEnabledPipes ==
    /\ \E enabled_pipes \in {0, 1, 255} : app' = [app EXCEPT !.enabled_pipes = enabled_pipes]
    /\ obs' = [obs EXCEPT !.call = "enabled_pipes", !.arg = None, !.ret = "none"]
    /\ UNCHANGED drv

CfgMaxPayloadSize ==
    /\ \E n \in {0, 252, 253, 255} : app' = [app EXCEPT !.maximum_payload_size = n]
    /\ obs' = [obs EXCEPT !.call = "max_payload_size", !.arg = None, !.ret = "none"]
    /\ UNCHANGED drv

CfgCheck ==
    /\ \E overflow_checks \in BOOLEAN :
          obs' = [obs EXCEPT !.call = "check", !.arg = None,
                             !.ret = config_check(app, overflow_checks)]
    /\ UNCHANGED <<drv, app>>

NextConfig ==
    \/ CfgWaitForAckTimeout
    \/ CfgRetransmitDelay
    \/ CfgMaximumTransmitAttempts
    \/ CfgEnabledPipes
    \/ CfgMaxPayloadSize
    \/ CfgCheck

SpecConfig == InitConfig /\ [][NextConfig]_vars

(************************* EsbHeader, EsbHeaderBuilder *********************)
\* the u8 values the header builder's setters are called with
HdrLengths == {0, 1, 252, 253, 255}
HdrPids == {0, 1, 3, 4, 127, 128, 129, 131, 132, 255}
HdrPipes == {0, 7, 8, 255}

\* EsbHeaderBuilder::default()
DefaultHeaderBuilder == [ rssi |-> 0, pid_no_ack |-> 0, length |-> 0, pipe |-> 0 ]

builder_pipe(b, pipe) == [b EXCEPT !.pipe = pipe]

builder_max_payload(b, max_payload) == [b EXCEPT !.length = max_payload]

\* `&= 0b1111_1110` / `|= 0b0000_0001`
builder_no_ack(b, no_ack) ==
    [b EXCEPT !.pid_no_ack = IF no_ack THEN (@ \div 2) * 2 ELSE (@ \div 2) * 2 + 1]

\* `&= 0b0000_0001; |= pid << 1`, the shift in u8
builder_pid(b, pid) ==
    [b EXCEPT !.pid_no_ack = (@ % 2) + ((pid * 2) % 256)]

\* EsbHeaderBuilder::check: Ok(header) is Some(header), Err(InvalidParameters) None
builder_check(b) ==
    LET bad_length == b.length > 252
        bad_pipe == b.pipe > 7
        bad_pid == b.pid_no_ack > 7
    IN  IF bad_length \/ bad_pid \/ bad_pipe THEN None ELSE Some(b)

\* EsbHeader::new(max_payload_length, pid, pipe, no_ack)
header_new(max_payload_length, pid, pipe, no_ack) ==
    builder_check(
        builder_no_ack(
            builder_pipe(
                builder_pid(
                    builder_max_payload(DefaultHeaderBuilder, max_payload_length),
                    pid),
                pipe),
            no_ack))

\* EsbHeader::pid / no_ack / payload_len
header_pid(h) == h.pid_no_ack \div 2

header_no_ack(h) == (h.pid_no_ack % 2) # 1

payload_len(h) == h.length

\* byte indices of the packed header (0-based, as in the source)
rssi_idx == 0
pipe_idx == 1
length_idx == 2
pid_no_ack_idx == 3

\* EsbHeader::into_bytes: HeaderBytes as a sequence, byte i at position i + 1
into_bytes(h) == << h.rssi, h.pipe, h.length, h.pid_no_ack >>

from_bytes_reordered(bytes) ==
    [ rssi |-> bytes[rssi_idx + 1], pipe |-> bytes[pipe_idx + 1],
      length |-> bytes[pid_no_ack_idx + 1], pid_no_ack |-> bytes[length_idx + 1] ]

\* EsbHeader::from_bytes
from_bytes(bytes) ==
    [ rssi |-> bytes[rssi_idx + 1], pipe |-> bytes[pipe_idx + 1],
      length |-> bytes[length_idx + 1], pid_no_ack |-> bytes[pid_no_ack_idx + 1] ]

\* `app` is what the application holds: the builder (Clone, so it outlives a
\* failed check) and the arguments its setters were last given, then the
\* header a successful check returned and the bytes it was packed into
FreshBuilder ==
    [ builder |-> DefaultHeaderBuilder,
      given |-> [ length |-> 0, pid |-> 0, pipe |-> 0, no_ack |-> TRUE ],
      header |-> None, bytes |-> None ]

InitHeader ==
    /\ drv = NewDrv("IdleTx")
    /\ app = FreshBuilder
    /\ obs = NewObs

HdrPipe ==
    /\ app.header = None
    /\ \E pipe \in HdrPipes :
          app' = [app EXCEPT !.builder = builder_pipe(@, pipe), !.given.pipe = pipe]
    /\ obs' = [obs EXCEPT !.call = "pipe", !.arg = None, !.ret = "none"]
    /\ UNCHANGED drv

HdrMaxPayload ==
    /\ app.header = None
    /\ \E n \in HdrLengths :
          app' = [app EXCEPT !.builder = builder_max_payload(@, n), !.given.length = n]
    /\ obs' = [obs EXCEPT !.call = "max_payload", !.arg = None, !.ret = "none"]
    /\ UNCHANGED drv

HdrNoAck ==
    /\ app.header = None
    /\ \E n \in BOOLEAN :
          app' = [app EXCEPT !.builder = builder_no_ack(@, n), !.given.no_ack = n]
    /\ obs' = [obs EXCEPT !.call = "no_ack", !.arg = None, !.ret = "none"]
    /\ UNCHANGED drv

HdrPid ==
    /\ app.header = None
    /\ \E pid \in HdrPids :
          app' = [app EXCEPT !.builder = builder_pid(@, pid), !.given.pid = pid]
    /\ obs' = [obs EXCEPT !.call = "pid", !.arg = None, !.ret = "none"]
    /\ UNCHANGED drv

HdrCheck ==
    /\ app.header = None
    /\ LET r == builder_check(app.builder) IN
          /\ app' = [app EXCEPT !.header = r, !.bytes = None]
          /\ obs' = [obs EXCEPT !.call = "check", !.arg = r,
                                !.ret = IF r = None THEN "InvalidParameters" ELSE "Ok"]
    /\ UNCHANGED drv

HdrNew ==
    /\ app = FreshBuilder
    /\ \E n \in HdrLengths, pid \in HdrPids, pipe \in HdrPipes, na \in BOOLEAN :
          LET r == header_new(n, pid, pipe, na) IN
          /\ app' = [ builder |-> DefaultHeaderBuilder,
                      given |-> [ length |-> n, pid |-> pid, pipe |-> pipe,
                                  no_ack |-> na ],
                      header |-> r, bytes |-> None ]
          /\ obs' = [obs EXCEPT !.call = "new", !.arg = r,
                                !.ret = IF r = None THEN "InvalidParameters" ELSE "Ok"]
    /\ UNCHANGED drv

\* EsbHeaderBuilder::default(): the application starts over
HdrDefault ==
    /\ app.header # None
    /\ app' = FreshBuilder
    /\ obs' = [obs EXCEPT !.call = "default", !.arg = None, !.ret = "none"]
    /\ UNCHANGED drv

HdrIntoBytes ==
    /\ app.header # None
    /\ app' = [app EXCEPT !.bytes = Some(into_bytes(Unwrap(app.header)))]
    /\ obs' = [obs EXCEPT !.call = "into_bytes", !.arg = None, !.ret = "none"]
    /\ UNCHANGED drv

HdrFromBytes ==
    /\ app.bytes # None
    /\ obs' = [obs EXCEPT !.call = "from_bytes",
                          !.arg = Some(from_bytes(Unwrap(app.bytes))),
                          !.ret = "none"]
    /\ UNCHANGED <<drv, app>>

NextHeader ==
    \/ HdrPipe
    \/ HdrMaxPayload
    \/ HdrNoAck
    \/ HdrPid
    \/ HdrCheck
    \/ HdrNew
    \/ HdrDefault
    \/ HdrIntoBytes
    \/ HdrFromBytes

SpecHeader == InitHeader /\ [][NextHeader]_vars

(**************************** buffer and roles *****************************)
PtxStates == { "IdleTx", "TransmitterTx", "TransmitterTxNoAck",
               "TransmitterWaitAck", "TransmitterWaitRetransmit" }

PrxStates == { "IdleRx", "Receiver", "TransmittingAck", "TransmittingRepeatedAck" }

\* the packets on air while the roles change: one pipe

try_split_again(s) ==
    [s EXCEPT !.split = TRUE, !.state = "IdleTx", !.attempts = 0,
              !.timer_flag = FALSE, !.config = DefaultConfig,
              !.tx_grant = None, !.rx_grant = None,
              !.last_crc = [p \in Pipes |-> 0], !.last_pid = [p \in Pipes |-> 0],
              !.cached_pipe = 0,
              !.inten_disabled = FALSE, !.inten_ready = FALSE,
              !.shorts_rxen = FALSE, !.shorts_txen = FALSE,
              !.inten0 = FALSE, !.inten1 = FALSE, !.timer_run = FALSE]

\* EsbBuffer::try_split: refused once the queues are split; else the handles
\* are created, the radio and the timer initialised (all their interrupts
\* disabled, SHORTS written without the turn-around short-cuts, the timer
\* stopped) and the timer flag cleared
try_split(s) ==
    IF s.split THEN s
    ELSE [s EXCEPT !.split = TRUE, !.state = "IdleTx", !.attempts = 0,
                   !.timer_flag = FALSE, !.config = DefaultConfig,
                   !.tx_grant = None, !.rx_grant = None,
                   !.last_crc = [p \in Pipes |-> 0], !.last_pid = [p \in Pipes |-> 0],
                   !.cached_pipe = 0,
                   !.inten_disabled = FALSE, !.inten_ready = FALSE,
                   !.shorts_rxen = FALSE, !.shorts_txen = FALSE,
                   !.inten0 = FALSE, !.inten1 = FALSE, !.timer_run = FALSE]

\* try_release_framed on a queue is refused while a grant of that queue is
\* outstanding.  On the app->radio queue these are the radio wrapper's
\* tx_grant (read) and the application's PayloadW `a` (write), on the
\* radio->app queue the wrapper's rx_grant (write) and the application's
\* PayloadR (read).
atr_release_ok(s, a) == s.tx_grant = None /\ a = None

rta_release_ok(s) == s.rx_grant = None /\ ~s.rta_read

try_release_ret(s, a) ==
    IF atr_release_ok(s, a) /\ rta_release_ok(s) THEN "Ok" ELSE "Err"

\* EsbBuffer::try_release: a queue whose release is accepted is
\* re-initialised; when both are, the handles are consumed and the queues can
\* be split again; when only one is, that queue is split again and the
\* handles are returned
try_release(s, a) ==
    LET atr_res == atr_release_ok(s, a)
        rta_res == rta_release_ok(s)
    IN  IF atr_res /\ rta_res
        THEN [s EXCEPT !.split = FALSE, !.state = "Unsplit",
                       !.atr = <<>>, !.rta = <<>>]
        ELSE IF atr_res THEN [s EXCEPT !.atr = <<>>]
        ELSE IF rta_res THEN [s EXCEPT !.rta = <<>>]
        ELSE s

into_disabled_keeping_attempts(s) ==
    [check_and_clear_flags(clear_interrupt_ack(clear_interrupt_retransmit(stop(s))))
        EXCEPT !.state = "Disabled"]

\* EsbIrq::into_disabled
into_disabled(s) ==
    [check_and_clear_flags(clear_interrupt_ack(clear_interrupt_retransmit(stop(s))))
        EXCEPT !.state = "Disabled", !.attempts = 0]

\* EsbIrq<Disabled>::into_ptx
into_ptx(s) == [s EXCEPT !.state = "IdleTx", !.attempts = 0]

\* EsbIrq<Disabled>::into_prx
into_prx(s) == [s EXCEPT !.state = "IdleRx", !.attempts = 0]

\* the static buffer before the first split; the peripherals are in reset
InitRole ==
    /\ \E debug_assertions \in BOOLEAN :
          drv = [NewDrv("Unsplit") EXCEPT !.split = FALSE,
                                          !.debug_assertions = debug_assertions]
    /\ app = None
    /\ obs = NewObs

TrySplit ==
    /\ ThreadMode
    /\ drv' = try_split(drv)
    /\ obs' = [obs EXCEPT !.call = "try_split", !.arg = None,
                          !.ret = IF drv.split THEN "AlreadySplit" ELSE "Ok"]
    /\ UNCHANGED app

\* try_release by the owner of the three handles; `arg` keeps the state it
\* was called in
TryRelease ==
    /\ ThreadMode
    /\ drv.split
    /\ drv' = try_release(drv, app)
    /\ obs' = [obs EXCEPT !.call = "try_release", !.arg = Some(drv.state),
                          !.ret = try_release_ret(drv, app)]
    /\ UNCHANGED app

\* timer_interrupt needs the IrqTimer handle
RoleTimerIsr == drv.split /\ TimerIsr

\* into_disabled, called by the owner of the interrupt handle; `arg` keeps
\* the state it was called in
IntoDisabled ==
    /\ ThreadMode
    /\ drv.state \in PtxStates \cup PrxStates \cup {"Disabled"}
    /\ drv' = into_disabled(drv)
    /\ obs' = [obs EXCEPT !.call = "into_disabled", !.arg = Some(drv.state),
                          !.ret = "none"]
    /\ UNCHANGED app

IntoPtx ==
    /\ ThreadMode
    /\ drv.state = "Disabled"
    /\ drv' = into_ptx(drv)
    /\ obs' = [obs EXCEPT !.call = "into_ptx", !.arg = None, !.ret = "none"]
    /\ UNCHANGED app

IntoPrx ==
    /\ ThreadMode
    /\ drv.state = "Disabled"
    /\ drv' = into_prx(drv)
    /\ obs' = [obs EXCEPT !.call = "into_prx", !.arg = None, !.ret = "none"]
    /\ UNCHANGED app

\* the radio interrupt handler of the role the driver is in; `arg` tells
\* whether the invocation found neither flag set (a user event)
RoleRadioIsr ==
    /\ Running
    /\ RadioIrqPending(drv)
    /\ drv.state \in PtxStates \cup PrxStates
    /\ LET r == IF drv.state \in PtxStates THEN ptx_radio_interrupt(drv)
                ELSE prx_radio_interrupt(drv)
       IN  /\ drv' = r.s
           /\ obs' = [obs EXCEPT !.call = "radio_interrupt", !.ret = r.ret,
                         !.arg = Some(~drv.events_disabled /\ ~drv.timer_flag)]
    /\ UNCHANGED app

\* the peer of the PRX role sends on pipe 0; the radio receives the packet
\* whenever it listens on that pipe, whatever the state of the driver
RoleHwRxPacket ==
    /\ drv.radio_hw = "rx"
    /\ drv.events_ready /\ ~drv.events_disabled
    /\ ~RadioIrqClearable(drv)
    /\ \E pkt \in { p \in RxPackets : p.pipe = 0 /\ p.pipe \in drv.rxaddresses },
          ok \in BOOLEAN :
          drv' = [drv EXCEPT !.events_disabled = TRUE,
                             !.radio_hw = AfterDisabled(drv),
                             !.crcstatus = ok, !.rxmatch = pkt.pipe,
                             !.rxcrc = pkt.crc,
                             !.rxbuf = [length |-> pkt.length, pid |-> pkt.pid,
                                        no_ack |-> pkt.no_ack]]
    /\ UNCHANGED <<app, obs>>

RoleStartReceiving ==
    /\ drv.state \in PrxStates
    /\ ThreadMode
    /\ LET r == start_receiving(drv) IN
          /\ drv' = r.s
          /\ obs' = [obs EXCEPT !.call = "start_receiving", !.arg = None,
                                !.ret = r.ret]
    /\ UNCHANGED app

\* one frame at a time
RoleGrantPacket ==
    /\ drv.state \in PtxStates \cup PrxStates
    /\ drv.atr = <<>>
    /\ \E h \in PtxHeaders : GrantPacket(h)
    /\ UNCHANGED obs

RoleStartTx ==
    /\ drv.state \in PtxStates \cup PrxStates
    /\ ThreadMode
    /\ drv' = [drv EXCEPT !.nvic_radio = TRUE]
    /\ UNCHANGED <<app, obs>>

NextRole ==
    \/ TrySplit
    \/ TryRelease
    \/ IntoDisabled
    \/ IntoPtx
    \/ IntoPrx
    \/ RoleRadioIsr
    \/ RoleTimerIsr
    \/ HwReady
    \/ HwTxDone
    \/ HwRxAck
    \/ RoleHwRxPacket
    \/ HwCompareAck
    \/ HwCompareRetransmit
    \/ RoleStartReceiving
    \/ RoleGrantPacket
    \/ PrxCommitAll
    \/ RoleStartTx
    \/ read_packet
    \/ release
    \/ PayloadRDrop

SpecRole == InitRole /\ [][NextRole]_vars

(************************ PTX with a checked Config ************************)
\* the Configs ConfigBuilder::check hands out, per build
CheckedConfigs(overflow_checks) ==
    { c \in { [DefaultConfig EXCEPT !.wait_for_ack_timeout = w,
                                    !.retransmit_delay = d] :
                 w \in AckTimeouts, d \in RetransmitDelays } :
         config_check(c, overflow_checks) = "Ok" }

\* one ack-requesting frame type on pipe 0
ArmHeaders == { h \in PtxHeaders : ~h.no_ack }

InitArm ==
    /\ \E overflow_checks \in BOOLEAN, debug_assertions \in BOOLEAN :
          \E c \in CheckedConfigs(overflow_checks) :
             drv = [NewDrv("IdleTx") EXCEPT !.config = c,
                                            !.overflow_checks = overflow_checks,
                                            !.debug_assertions = debug_assertions]
    /\ app = None
    /\ obs = NewObs

\* one ack-requesting frame at a time
ArmGrantPacket ==
    /\ drv.atr = <<>>
    /\ \E h \in ArmHeaders : GrantPacket(h)
    /\ UNCHANGED obs

NextArm ==
    \/ PtxRadioIsr
    \/ TimerIsr
    \/ HwReady
    \/ HwTxDone
    \/ HwRxAck
    \/ HwCompareAck
    \/ HwCompareRetransmit
    \/ ArmGrantPacket
    \/ PtxCommitAll
    \/ start_tx

SpecArm == InitArm /\ [][NextArm]_vars

(********************* PTX, a frame nobody acknowledges *********************)
\* the ack timeouts followed per frame
MaxTimeouts == 256

\* ConfigBuilder::maximum_transmit_attempts(n: u8) at the ends of the range
InitAttempts ==
    /\ \E n \in {0, 1, 255}, overflow_checks \in BOOLEAN,
          debug_assertions \in BOOLEAN :
          drv = [NewDrv("IdleTx") EXCEPT !.config.maximum_transmit_attempts = n,
                                         !.overflow_checks = overflow_checks,
                                         !.debug_assertions = debug_assertions]
    /\ app = None
    /\ obs = NewObs

AttemptsRadioIsr == obs.timeouts <= MaxTimeouts /\ PtxRadioIsr

\* no HwRxAck: no ACK ever arrives
NextAttempts ==
    \/ AttemptsRadioIsr
    \/ TimerIsr
    \/ HwReady
    \/ HwTxDone
    \/ HwCompareAck
    \/ HwCompareRetransmit
    \/ ArmGrantPacket
    \/ PtxCommitAll
    \/ start_tx

SpecAttempts == InitAttempts /\ [][NextAttempts]_vars

(******************* application: frames as byte counts ********************)
\* Here `app` is [grant, queue]: the outstanding PayloadW, if any, as
\* [header, len, to_commit] (len the bytes of the FrameGrantW, to_commit the
\* bytes it commits when dropped), and the app->radio queue as the committed
\* frames [header, size, cap]: the header bytes, the bytes committed and the
\* payload capacity of the grant the frame was written in.
FrameHeaders == [ pipe : {0, 7}, length : AppLens, pid : {0, 3}, no_ack : {TRUE} ]

RECURSIVE QueuedBytes(_)
QueuedBytes(q) == IF q = <<>> THEN 0 ELSE Head(q).size + QueuedBytes(Tail(q))

\* FrameGrantW::commit(used): the bytes committed, saturated to the grant
grant_commit(g, used) ==
    [ header |-> g.header, size |-> Min(used, g.len), cap |-> g.len - HEADER_SIZE ]

\* PayloadW::update_header(header)
update_header(g, header) ==
    LET payload_max == IF g.len >= HEADER_SIZE THEN g.len - HEADER_SIZE ELSE 0
    IN  [ g EXCEPT !.header = [ header EXCEPT !.length = Min(@, payload_max % 256) ] ]

\* PayloadW::to_commit(amt)
to_commit(g, amt) ==
    IF amt # None
    THEN LET payload_max == IF g.len >= HEADER_SIZE THEN g.len - HEADER_SIZE ELSE 0
             len == Min(payload_max, Unwrap(amt))
         IN  [ g EXCEPT !.header.length = len % 256,
                        !.to_commit = Min(len + HEADER_SIZE, g.len) ]
    ELSE [ g EXCEPT !.to_commit = 0 ]

InitFrame ==
    /\ drv = [NewDrv("IdleTx") EXCEPT !.config.maximum_payload_size = MaxLen]
    /\ app = [ grant |-> None, queue |-> <<>> ]
    /\ obs = NewObs

\* EsbApp::grant_packet(header)
FrameGrantPacket ==
    /\ \E h \in FrameHeaders :
          LET n == h.length + HEADER_SIZE
              ok == app.grant = None /\ QueuedBytes(app.queue) + n <= OutCap
              g == [ header |-> h, len |-> n, to_commit |-> 0 ]
          IN  /\ app' = IF ok THEN [app EXCEPT !.grant = Some(g)] ELSE app
              /\ obs' = [obs EXCEPT !.call = "grant_packet", !.arg = Some(h),
                                    !.ret = IF app.grant # None THEN "GrantInProgress"
                                            ELSE IF ok THEN "Ok"
                                            ELSE "OutgoingQueueFull"]
    /\ UNCHANGED drv

FrameUpdateHeader ==
    /\ app.grant # None
    /\ \E h \in FrameHeaders :
          /\ app' = [app EXCEPT !.grant = Some(update_header(Unwrap(app.grant), h))]
          /\ obs' = [obs EXCEPT !.call = "update_header", !.arg = Some(h)]
    /\ UNCHANGED drv

FrameToCommit ==
    /\ app.grant # None
    /\ \E amt \in {None} \cup { Some(n) : n \in AppUsed } :
          /\ app' = [app EXCEPT !.grant = Some(to_commit(Unwrap(app.grant), amt))]
          /\ obs' = [obs EXCEPT !.call = "to_commit", !.arg = amt]
    /\ UNCHANGED drv

\* PayloadW::commit(used)
FrameCommit ==
    /\ app.grant # None
    /\ \E used \in AppUsed :
          LET g == Unwrap(app.grant)
              h == commit(g, used)
          IN  /\ app' = [ grant |-> None,
                          queue |-> Append(app.queue,
                                       grant_commit([g EXCEPT !.header = h],
                                                    h.length + HEADER_SIZE)) ]
              /\ obs' = [obs EXCEPT !.call = "commit", !.arg = Some(used)]
    /\ UNCHANGED drv

\* PayloadW::commit_all
FrameCommitAll ==
    /\ app.grant # None
    /\ LET g == Unwrap(app.grant)
       IN  app' = [ grant |-> None,
                    queue |-> Append(app.queue,
                                 grant_commit(g, commit_all(g).length + HEADER_SIZE)) ]
    /\ obs' = [obs EXCEPT !.call = "commit_all", !.arg = None]
    /\ UNCHANGED drv

\* the PayloadW goes out of scope: the FrameGrantW commits its to_commit
\* bytes, nothing for 0
FrameDrop ==
    /\ app.grant # None
    /\ LET g == Unwrap(app.grant)
       IN  app' = [ grant |-> None,
                    queue |-> IF g.to_commit = 0 THEN app.queue
                              ELSE Append(app.queue, grant_commit(g, g.to_commit)) ]
    /\ obs' = [obs EXCEPT !.call = "drop", !.arg = None]
    /\ UNCHANGED drv

\* the radio side reads the head frame and releases it
FrameRelease ==
    /\ app.queue # <<>>
    /\ app' = [app EXCEPT !.queue = Tail(@)]
    /\ obs' = [obs EXCEPT !.call = "release", !.arg = None]
    /\ UNCHANGED drv

NextFrame ==
    \/ FrameGrantPacket
    \/ FrameUpdateHeader
    \/ FrameToCommit
    \/ FrameCommit
    \/ FrameCommitAll
    \/ FrameDrop
    \/ FrameRelease

SpecFrame == InitFrame /\ [][NextFrame]_vars

(********************************* claims **********************************)
\* C1: PTX, a frame with ack requested whose waits all fail: radio_interrupt
\* returns into TransmitterWaitRetransmit at most maximum_transmit_attempts
\* times for that frame; the failure after that returns Err(MaximumAttempts),
\* and the invocation that returns it releases the frame from the
\* app->radio queue (so it is returned once per frame).
C1_AtMostNRetransmits ==
    [][ /\ obs'.cycles <= drv'.config.maximum_transmit_attempts
        /\ (PtxRadioIsr /\ obs'.ret = "MaximumAttempts")
              => /\ obs.cycles = drv.config.maximum_transmit_attempts
                 /\ obs'.cycles = obs.cycles
                 /\ drv.atr # <<>> /\ drv'.atr = Tail(drv.atr)
        /\ (PtxRadioIsr /\ PtxHandlesTimeout(drv))
              => IF obs.cycles = drv.config.maximum_transmit_attempts
                 THEN obs'.ret = "MaximumAttempts"
                 ELSE /\ obs'.ret = "Ok" /\ drv'.atr = drv.atr
                      /\ drv'.state = "TransmitterWaitRetransmit"
      ]_vars

C1_Witness ==
    /\ obs.ret = "MaximumAttempts" /\ obs.done
    /\ obs.cycles = drv.config.maximum_transmit_attempts
    /\ obs.timeouts = obs.cycles + 1
    /\ drv.atr = <<>>

\* C2 (as amended): default Config, one queued ack-requesting frame, no ACK
\* received (every failed attempt so far was an ack-timeout): radio_interrupt returns Err(MaximumAttempts) on the invocation
\* that handles the 4th ack-timeout (maximum_transmit_attempts + 1), not
\* earlier and not later; after it the frame has left the app->radio queue,
\* attempts = 0 and the state is IdleTx.
C2_MaximumAttemptsOnFourthTimeout ==
    [][ (PtxRadioIsr /\ PtxHandlesTimeout(drv) /\ obs.timeouts = drv.attempts
            /\ drv.config = DefaultConfig)
          => /\ (obs'.ret = "MaximumAttempts")
                    <=> (obs'.timeouts = MAXIMUM_TRANSMIT_ATTEMPTS + 1)
             /\ (obs'.ret = "MaximumAttempts")
                    => /\ drv'.atr = Tail(drv.atr) /\ drv'.attempts = 0
                       /\ (Len(drv.atr) = 1 => drv'.state = "IdleTx")
      ]_vars

C2_Witness ==
    /\ obs.ret = "MaximumAttempts" /\ obs.done
    /\ obs.timeouts = MAXIMUM_TRANSMIT_ATTEMPTS + 1
    /\ drv.state = "IdleTx" /\ drv.attempts = 0 /\ drv.atr = <<>>

\* C2 as stated: Err(MaximumAttempts) is returned on the invocation that
\* handles the 3rd ack-timeout, not earlier and not later.
C2_Original ==
    [][ (PtxRadioIsr /\ PtxHandlesTimeout(drv) /\ obs.timeouts = drv.attempts
            /\ drv.config = DefaultConfig)
          => ((obs'.ret = "MaximumAttempts")
                    <=> (obs'.timeouts = MAXIMUM_TRANSMIT_ATTEMPTS))
      ]_vars

\* C4: PTX, the invocation that handles a CRC-ok ACK for the only queued
\* frame releases that frame (the queue is empty afterwards), returns Ok,
\* leaves the state IdleTx and the radio wrapper without TX read-grant and
\* without RX write-grant; and stop() leaves the wrapper without either grant,
\* from every reachable state and in the invocations that end with it.
C4_NoGrantLeak ==
    [][ /\ (PtxRadioIsr /\ PtxHandlesAck(drv) /\ drv.crcstatus /\ Len(drv.atr) = 1)
              => /\ drv'.atr = <<>> /\ obs'.ret = "Ok" /\ drv'.state = "IdleTx"
                 /\ drv'.tx_grant = None /\ drv'.rx_grant = None
        /\ stop(drv').tx_grant = None /\ stop(drv').rx_grant = None
        /\ (PtxRadioIsr /\ (obs'.ret = "IncomingQueueFull"
                              \/ drv'.state = "TransmitterWaitRetransmit"))
              => drv'.tx_grant = None /\ drv'.rx_grant = None
      ]_vars

C4_Witness ==
    /\ obs.ret = "Ok" /\ obs.done /\ obs.cycles = 0
    /\ drv.state = "IdleTx" /\ drv.atr = <<>> /\ Len(drv.rta) = 1
    /\ drv.tx_grant = None /\ drv.rx_grant = None

\* C6: PTX backpressure: when the `disabled` event of an ack-requesting
\* transmission is handled in TransmitterTx and the radio->app queue cannot
\* grant maximum_payload_size + 4 bytes, radio_interrupt returns
\* Err(IncomingQueueFull), the state becomes IdleTx, no timer compare is
\* armed, and the frame of that attempt is still the head of the app->radio
\* queue, so that the next send_packet transmits it again.
C6_IncomingQueueFullKeepsFrame ==
    [][ (PtxRadioIsr /\ drv.state = "TransmitterTx" /\ drv.events_disabled
            /\ ~grant_to_app_ok(drv))
          => /\ obs'.ret = "IncomingQueueFull" /\ drv'.state = "IdleTx"
             /\ ~drv'.inten0 /\ ~drv'.inten1
             /\ drv.tx_grant = Some(Head(drv.atr)) /\ drv'.atr = drv.atr
             /\ send_packet(drv').tx_grant = drv.tx_grant
      ]_vars

C6_Witness ==
    /\ obs.ret = "IncomingQueueFull" /\ drv.state = "IdleTx"
    /\ drv.atr # <<>> /\ ~Head(drv.atr).no_ack /\ drv.tx_grant = None


\* the packet in the radio's registers repeats the last one accepted on its pipe
Repeated(s) ==
    s.last_crc[s.rxmatch] = s.rxcrc /\ s.last_pid[s.rxmatch] = s.rxbuf.pid

\* the invocation handles a CRC-ok reception in Receiver with the RX
\* write-grant in place
PrxHandlesGoodRx(s) ==
    PrxHandlesRx(s) /\ s.crcstatus /\ s.rx_grant # None

\* C3: PRX: two successive CRC-ok receptions with the same (pipe, crc, pid),
\* the first of which does not repeat its predecessor, commit exactly one
\* frame to the radio->app queue between them; when both request an
\* acknowledgment check_packet yields Ack for the first and RepeatedAck for
\* the second.
C3_DuplicateSuppression ==
    [][ (PrxRadioIsr /\ PrxHandlesRx(drv) /\ drv.crcstatus
            /\ obs.key # None /\ obs.fresh
            /\ SubSeq(Unwrap(obs.key), 1, 3) = RxKey(drv))
          => /\ obs.kc + (Len(drv'.rta) - Len(drv.rta)) = 1
             /\ (~Unwrap(obs.key)[4] /\ ~drv.rxbuf.no_ack)
                    => (obs.kind = "Ack" /\ obs'.kind = "RepeatedAck")
      ]_vars

\* C7: PRX: the invocation that handles a CRC-ok, non-duplicate packet with
\* no_ack set in Receiver, with room in the radio->app queue for the frame
\* and a fresh grant, commits exactly one frame, returns Ok, transmits no
\* ACK and leaves the driver in Receiver, the radio listening into a fresh
\* RX write-grant.
C7_NoAckReception ==
    [][ (PrxRadioIsr /\ PrxHandlesGoodRx(drv) /\ drv.rxbuf.no_ack /\ ~Repeated(drv)
            /\ Used(drv.rta) + HEADER_SIZE + drv.rxbuf.length
                  + drv.config.maximum_payload_size + HEADER_SIZE <= InCap)
          => /\ drv'.rta = Append(drv.rta, RxFrame(drv, drv.rxmatch))
             /\ obs'.ret = "Ok" /\ obs'.kind = "NoAck"
             /\ drv'.state = "Receiver" /\ drv'.radio_hw = "rx"
             /\ drv'.rx_grant # None /\ drv'.packetptr = "rx"
      ]_vars

\* C8: PRX: the invocation that handles a non-duplicate packet requesting an
\* acknowledgment releases the frame retained for the previous ACK, if any,
\* and takes no other frame out of the app->radio queue; the ACK then carries
\* the head frame of the queue, retained by the radio wrapper and still
\* queued, if the queue is not empty, and the static zero-length ACK
\* otherwise.
C8_AckPayload ==
    [][ (PrxRadioIsr /\ PrxHandlesRx(drv) /\ drv.crcstatus
            /\ ~drv.rxbuf.no_ack /\ ~Repeated(drv))
          => LET q == IF drv.tx_grant # None THEN Tail(drv.atr) ELSE drv.atr IN
             /\ drv'.atr = q
             /\ obs'.kind = "Ack" /\ drv'.state = "TransmittingAck"
             /\ drv'.txaddress = drv.rxmatch
             /\ IF q # <<>>
                THEN drv'.tx_grant = Some(Head(q)) /\ drv'.packetptr = "tx"
                ELSE drv'.tx_grant = None /\ drv'.packetptr = "fallback"
      ]_vars

\* C9: PRX: the invocation that handles a reception with a CRC error in
\* Receiver gets BadCRC from check_packet, stays in Receiver, commits
\* nothing, leaves last_crc / last_pid unchanged, re-enables the radio for RX
\* and leaves the radio wrapper with the RX write-grant it held.
C9_BadCrcKeepsGrant ==
    [][ (PrxRadioIsr /\ PrxHandlesRx(drv) /\ ~drv.crcstatus /\ drv.rx_grant # None)
          => /\ obs'.kind = "BadCRC" /\ drv'.state = "Receiver"
             /\ drv'.rta = drv.rta
             /\ drv'.last_crc = drv.last_crc /\ drv'.last_pid = drv.last_pid
             /\ drv'.radio_hw = "rx"
             /\ drv'.rx_grant = drv.rx_grant
      ]_vars

\* the outcome C10 names: radio stopped, IdleRx, Err(IncomingQueueFull)
PrxRefused ==
    /\ obs'.ret = "IncomingQueueFull" /\ drv'.state = "IdleRx"
    /\ drv'.radio_hw = "disabled" /\ ~drv'.inten_disabled
    /\ drv'.rx_grant = None

\* C10: PRX backpressure: when the radio->app queue refuses the fresh grant
\* of maximum_payload_size + 4 bytes in start_receiving (IdleRx), after the
\* ACK transmission (TransmittingAck) or after a NoAck reception (Receiver),
\* the radio is stopped, the state becomes IdleRx, Err(IncomingQueueFull) is
\* returned and the frames already committed stay in the queue.
C10_PrxBackpressure ==
    [][ /\ ((PrxStartReceiving \/ PrxRadioIsr) /\ drv.state = "IdleRx"
               /\ ~grant_to_app_ok(drv))
              => (PrxRefused /\ drv'.rta = drv.rta)
        /\ (PrxRadioIsr /\ drv.state = "TransmittingAck" /\ drv.events_disabled
               /\ ~grant_to_app_ok(drv))
              => (PrxRefused /\ drv'.rta = drv.rta)
        /\ (PrxRadioIsr /\ PrxHandlesGoodRx(drv) /\ drv.rxbuf.no_ack /\ ~Repeated(drv)
               /\ Used(drv.rta) + HEADER_SIZE + drv.rxbuf.length
                     + drv.config.maximum_payload_size + HEADER_SIZE > InCap)
              => (PrxRefused /\ drv'.rta = Append(drv.rta, RxFrame(drv, drv.rxmatch)))
      ]_vars

\* C5: PTX liveness under fairness: every frame committed to the app->radio
\* queue is eventually released (the release count keeps growing while frames
\* are queued), and once the application stops committing the state machine
\* ends in IdleTx with the queue drained.  The application is even granted a
\* renewed start_tx after every Err(IncomingQueueFull), which the claim does
\* not ask of it.
C5_Liveness ==
    (obs.retry ~> ~obs.retry)
    => /\ \A b \in {0, 1} : (drv.atr # <<>> /\ obs.rel = b) ~> (obs.rel # b)
       /\ (<>[][~PtxCommitAll]_vars) => <>[](drv.atr = <<>> /\ drv.state = "IdleTx")

\* C11: grant_packet called while the write-grant of an earlier call is
\* outstanding returns Err(GrantInProgress) and changes neither the queue nor
\* that grant; with no grant outstanding it never returns GrantInProgress, and
\* it returns Ok with a grant whenever the queue has room; commit, commit_all
\* and drop leave no grant outstanding.
C11_GrantInProgress ==
    [][ /\ (AppGrantPacket /\ app # None)
              => /\ obs'.ret = "GrantInProgress"
                 /\ app' = app /\ drv'.atr = drv.atr
        /\ (AppGrantPacket /\ app = None)
              => /\ obs'.ret # "GrantInProgress"
                 /\ (Used(drv.atr) + HEADER_SIZE + Unwrap(obs'.arg).length <= OutCap)
                       => (obs'.ret = "Ok" /\ app' # None)
        /\ (AppCommit \/ AppCommitAll \/ AppDrop) => app' = None
      ]_vars

C11_Witness ==
    /\ obs.call = "grant_packet" /\ obs.ret = "GrantInProgress"
    /\ app # None /\ Unwrap(app).header # Unwrap(obs.arg)
    /\ drv.atr # <<>>

\* C12: grant_packet(header) with header.length > config.maximum_payload_size
\* returns Err(MaximumPacketExceeded), hands out no grant and enqueues nothing.
C12_MaximumPacketExceeded ==
    [][ (AppGrantPacket /\ Unwrap(obs'.arg).length > drv.config.maximum_payload_size)
          => /\ obs'.ret = "MaximumPacketExceeded"
             /\ app' = app /\ drv'.atr = drv.atr
      ]_vars

\* C13: commit(used) on a write-grant of header length L commits one frame
\* whose length byte is min(used, L), 4 + min(used, L) bytes in all;
\* commit_all commits 4 + L bytes; a grant dropped without commit adds no
\* frame.
C13_CommittedBytes ==
    [][ /\ AppCommit
              => LET L == Unwrap(app).header.length
                     used == Unwrap(obs'.arg)
                 IN  /\ Len(drv'.atr) = Len(drv.atr) + 1
                     /\ drv'.atr[Len(drv'.atr)].length = Min(used, L)
                     /\ Used(drv'.atr) = Used(drv.atr) + HEADER_SIZE + Min(used, L)
        /\ AppCommitAll
              => /\ Len(drv'.atr) = Len(drv.atr) + 1
                 /\ Used(drv'.atr) = Used(drv.atr) + HEADER_SIZE
                                        + Unwrap(app).header.length
        /\ AppDrop => drv'.atr = drv.atr
      ]_vars

C13_Witness ==
    /\ obs.call = "commit" /\ drv.atr # <<>> /\ app = None
    /\ Unwrap(obs.arg) > drv.atr[Len(drv.atr)].length
    /\ drv.atr[Len(drv.atr)].length > 0

\* C14: ConfigBuilder::check returns Err(InvalidParameters) whenever, as
\* mathematical integers, retransmit_delay <= wait_for_ack_timeout + 62, or
\* retransmit_delay <= RAMP_UP_TIME, or wait_for_ack_timeout < 44, or
\* maximum_payload_size > 252.
C14_ConfigCheck ==
    [][ (CfgCheck /\ ( \/ app.retransmit_delay
                            <= app.wait_for_ack_timeout + RETRANSMIT_DELAY_US_OFFSET
                       \/ app.retransmit_delay <= RAMP_UP_TIME
                       \/ app.wait_for_ack_timeout < 44
                       \/ app.maximum_payload_size > 252 ))
          => obs'.ret = "InvalidParameters"
      ]_vars

\* C15: EsbHeaderBuilder::check and EsbHeader::new return
\* Err(InvalidParameters) whenever the length given is > 252, the pid given
\* is > 3 or the pipe given is > 7, in any order of the builder calls, and
\* Ok with exactly the four fields given otherwise.
C15_HeaderCheck ==
    [][ (HdrCheck \/ HdrNew)
          => LET g == app'.given IN
             IF g.length > 252 \/ g.pid > 3 \/ g.pipe > 7
             THEN obs'.ret = "InvalidParameters"
             ELSE /\ obs'.ret = "Ok"
                  /\ LET h == Unwrap(obs'.arg) IN
                        /\ payload_len(h) = g.length /\ header_pid(h) = g.pid
                        /\ h.pipe = g.pipe /\ header_no_ack(h) = g.no_ack
      ]_vars

\* C16: header round trip: a valid header packed into the four bytes
\* [rssi, pipe, length, pid_no_ack] and parsed back has the same length,
\* pid, pipe and no_ack; the length is the byte at index 2 and pid_no_ack
\* the byte at index 3.
C16_HeaderRoundTrip ==
    [][ HdrFromBytes
          => LET h == Unwrap(app.header)
                 bytes == Unwrap(app.bytes)
                 p == Unwrap(obs'.arg)
             IN  /\ payload_len(p) = payload_len(h) /\ header_pid(p) = header_pid(h)
                 /\ p.pipe = h.pipe /\ header_no_ack(p) = header_no_ack(h)
                 /\ bytes[2 + 1] = h.length /\ bytes[3 + 1] = h.pid_no_ack
                 /\ bytes[1 + 1] = h.pipe
      ]_vars

C16_Witness ==
    /\ obs.call = "from_bytes" /\ app.header # None /\ app.bytes # None
    /\ payload_len(Unwrap(obs.arg)) = 252 /\ header_pid(Unwrap(obs.arg)) = 3
    /\ Unwrap(obs.arg).pipe = 7 /\ ~header_no_ack(Unwrap(obs.arg))
    /\ app.given = [ length |-> 252, pid |-> 3, pipe |-> 7, no_ack |-> FALSE ]

\* C17: try_split succeeds at most once on a buffer: called again with no
\* successful try_release in between it returns Err(AlreadySplit) and leaves
\* the driver, its grants, both queues and the peripherals as they were; on
\* a buffer that is not split it returns Ok with the driver in IdleTx.
C17_SingleSplit ==
    [][ /\ (TrySplit /\ drv.split)
              => (obs'.ret = "AlreadySplit" /\ drv' = drv /\ app' = app)
        /\ (TrySplit /\ ~drv.split)
              => /\ obs'.ret = "Ok" /\ drv'.split
                 /\ drv'.state = "IdleTx" /\ drv'.attempts = 0
        /\ (drv.split /\ ~drv'.split) => TryRelease
      ]_vars

C17_Witness ==
    /\ obs.call = "try_split" /\ obs.ret = "AlreadySplit"
    /\ drv.state = "TransmitterWaitAck" /\ drv.tx_grant # None
    /\ drv.atr # <<>> /\ drv.rta # <<>>

\* C18: into_disabled, from every PTX and PRX state, leaves the radio
\* stopped with its `disabled` interrupt off and no grant retained, both
\* timer interrupts cleared, the timer flag false, attempts = 0 and both
\* queues as they were; into_ptx yields IdleTx and into_prx IdleRx, both
\* with attempts = 0 and nothing else changed: the radio is still disabled
\* and the timer stopped.
C18_RoleTransitions ==
    [][ /\ IntoDisabled
              => /\ drv'.state = "Disabled" /\ drv'.attempts = 0
                 /\ drv'.radio_hw = "disabled"
                 /\ ~drv'.inten_disabled /\ ~drv'.events_disabled
                 /\ ~drv'.shorts_rxen /\ ~drv'.shorts_txen
                 /\ drv'.tx_grant = None /\ drv'.rx_grant = None
                 /\ ~drv'.inten0 /\ ~drv'.inten1 /\ ~drv'.ev0 /\ ~drv'.ev1
                 /\ ~drv'.timer_run /\ ~drv'.timer_flag
                 /\ drv'.atr = drv.atr /\ drv'.rta = drv.rta
        /\ (IntoPtx \/ IntoPrx)
              => /\ drv.state = "Disabled"
                 /\ drv'.state = (IF IntoPtx THEN "IdleTx" ELSE "IdleRx")
                 /\ drv'.attempts = 0
                 /\ drv'.radio_hw = "disabled" /\ ~drv'.timer_run
                 /\ drv' = [drv EXCEPT !.state = drv'.state, !.attempts = 0]
      ]_vars

C18_Witness ==
    /\ obs.call = "into_disabled"
    /\ Unwrap(obs.arg) = "TransmitterWaitRetransmit"
    /\ drv.state = "Disabled" /\ drv.attempts = 0
    /\ drv.atr # <<>> /\ drv.rta # <<>>

\* C19: user-event guard: a radio_interrupt invocation that finds neither
\* the `disabled` event nor the timer flag set while the state is not IdleTx
\* (PTX) respectively IdleRx (PRX) returns Ok and changes nothing but the
\* pending bit of the interrupt it serves: the state, attempts, the retained
\* grants, both queues, the radio and the timers are as before.
C19_UserEventGuard ==
    [][ (RoleRadioIsr /\ ~drv.events_disabled /\ ~drv.timer_flag
            /\ drv.state \notin {"IdleTx", "IdleRx"})
          => /\ obs'.ret = "Ok"
             /\ drv' = [drv EXCEPT !.nvic_radio = FALSE]
      ]_vars

C19_Witness ==
    /\ obs.call = "radio_interrupt" /\ obs.arg = Some(TRUE) /\ obs.ret = "Ok"
    /\ drv.state = "TransmitterWaitAck"
    /\ drv.tx_grant # None /\ drv.rx_grant # None /\ drv.inten1
    /\ drv.atr # <<>>

\* C20: timer_interrupt changes neither the protocol state, nor attempts,
\* nor a grant or queue: it clears the pending compare events, stores true
\* in the timer flag and pends the radio interrupt; while the flag is set
\* the radio interrupt is pending and the next step is the radio_interrupt
\* invocation that reads it; nothing else sets the flag.
C20_TimerInterrupt ==
    [][ /\ TimerIsr
              => /\ drv' = [drv EXCEPT !.timer_flag = TRUE, !.nvic_radio = TRUE,
                                       !.nvic_timer = FALSE,
                                       !.ev0 = FALSE, !.ev1 = FALSE,
                                       !.inten0 = IF drv.ev0 THEN FALSE ELSE @,
                                       !.inten1 = IF drv.ev1 THEN FALSE ELSE @,
                                       !.timer_run = IF drv.ev0 THEN FALSE ELSE @]
                 /\ ~TimerIrqPending(drv')
        /\ (~drv.timer_flag /\ drv'.timer_flag) => TimerIsr
        /\ drv'.timer_flag => RadioIrqPending(drv')
        /\ drv.timer_flag => (RoleRadioIsr /\ ~drv'.timer_flag)
      ]_vars

C20_Witness ==
    /\ drv.timer_flag /\ drv.nvic_radio /\ ~drv.ev1 /\ ~drv.inten1 /\ drv.inten0
    /\ drv.state = "TransmitterWaitAck" /\ drv.tx_grant # None

\* C21: PTX event/state consistency.  At every dispatch of radio_interrupt the
\* events read by check_and_clear_flags fit the state: a user event (neither
\* `disabled` nor `timer`) in IdleTx; `disabled` in TransmitterTx and in
\* TransmitterTxNoAck; `disabled` or `timer` in TransmitterWaitAck; `timer` in
\* TransmitterWaitRetransmit.  (An invocation from a user event outside IdleTx
\* returns before the dispatch.)
C21_EventStateConsistency ==
    [][PtxRadioIsr =>
        LET disabled == drv.events_disabled
            timer == drv.timer_flag
            user_event == ~disabled /\ ~timer
        IN  /\ drv.state = "IdleTx" => user_event
            /\ (~user_event /\ drv.state \in {"TransmitterTx", "TransmitterTxNoAck"})
                  => disabled
            /\ (~user_event /\ drv.state = "TransmitterWaitAck")
                  => (disabled \/ timer)
            /\ (~user_event /\ drv.state = "TransmitterWaitRetransmit")
                  => timer]_vars

\* C22: DMA aliasing (PTX).  An invocation of radio_interrupt releases the
\* outgoing frame the radio holds only if it observed the `disabled` event of
\* its transmission, or returns MaximumAttempts after stopping the radio, and
\* never while the radio is still transmitting from it; it commits the
\* incoming frame only if it observed the `disabled` event of the reception,
\* and never while the radio is still receiving into it.
C22_DmaAliasing ==
    [][PtxRadioIsr =>
        /\ Len(drv'.atr) < Len(drv.atr) =>
              /\ ~(drv.radio_hw = "tx" /\ drv.packetptr = "tx")
              /\ drv.events_disabled \/ obs'.ret = "MaximumAttempts"
        /\ Len(drv'.rta) > Len(drv.rta) =>
              /\ ~(drv.radio_hw = "rx" /\ drv.packetptr = "rx")
              /\ drv.events_disabled]_vars

\* the invocation handles the end of a no-ack transmission
PtxHandlesNoAckDone(s) ==
    s.state = "TransmitterTxNoAck" /\ s.events_disabled

\* C23: PTX frame ordering.  The frame radio_interrupt hands to the radio is
\* the head of the app->radio queue, the oldest committed frame; an invocation
\* that ends a failed attempt (TransmitterWaitRetransmit, IncomingQueueFull)
\* leaves the queue as it is, so the same head is sent again; an invocation
\* releases at most the head frame, only when it handles a CRC-ok ACK, the end
\* of a no-ack transmission or returns MaximumAttempts, and only a frame that
\* had been handed to the radio.
C23_FrameOrdering ==
    [][PtxRadioIsr =>
        /\ drv'.tx_grant # None =>
              drv'.atr # <<>> /\ drv'.tx_grant = Some(Head(drv'.atr))
        /\ (drv'.state = "TransmitterWaitRetransmit"
               \/ obs'.ret = "IncomingQueueFull") => drv'.atr = drv.atr
        /\ drv'.atr # drv.atr =>
              /\ drv.atr # <<>> /\ drv'.atr = Tail(drv.atr)
              /\ \/ PtxHandlesAck(drv) /\ drv.crcstatus
                 \/ PtxHandlesNoAckDone(drv)
                 \/ obs'.ret = "MaximumAttempts"
              /\ drv.tx_grant = Some(Head(drv.atr))]_vars

\* C24: PTX ACK reception.  An invocation of radio_interrupt that handles a
\* CRC-ok ACK in TransmitterWaitAck commits exactly one frame to the radio->app
\* queue, the received one (of any length, zero included) stamped with the
\* pipe of the frame that was transmitted, leaves both timer interrupts
\* cleared and attempts 0; one that handles an ACK with bad CRC or an ack
\* timeout commits nothing.
C24_AckReception ==
    [][PtxRadioIsr =>
        /\ (PtxHandlesAck(drv) /\ drv.crcstatus) =>
              /\ drv.tx_grant # None
              /\ drv'.rta = Append(drv.rta,
                                   RxFrame(drv, Unwrap(drv.tx_grant).pipe))
              /\ ~drv'.inten0 /\ ~drv'.inten1 /\ ~drv'.ev0 /\ ~drv'.ev1
              /\ ~drv'.timer_run
              /\ drv'.attempts = 0
        /\ ((PtxHandlesAck(drv) /\ ~drv.crcstatus) \/ PtxHandlesTimeout(drv))
              => drv'.rta = drv.rta]_vars

\* a zero-length ACK for a frame sent on pipe 1 was committed
C24_Witness ==
    /\ obs.ret = "Ok" /\ obs.done
    /\ drv.rta # <<>>
    /\ drv.rta[Len(drv.rta)].pipe = 1 /\ drv.rta[Len(drv.rta)].length = 0
    /\ drv.attempts = 0

\* the invocation handles a repeated ack-requesting packet on the pipe of the
\* cached ACK while the outgoing grant of that ACK is retained
PrxHandlesCachedRepeat(s) ==
    /\ PrxHandlesGoodRx(s) /\ Repeated(s) /\ ~s.rxbuf.no_ack
    /\ s.rxmatch = s.cached_pipe /\ s.tx_grant # None

\* C25: PRX duplicate with ACK.  The invocation that handles a duplicate
\* ack-requesting packet on cached_pipe with an outgoing grant retained points
\* the radio at that same outgoing frame (the head of the app->radio queue),
\* takes and releases no frame, commits nothing and moves Receiver ->
\* TransmittingRepeatedAck; the invocation that handles the end of that ACK
\* moves to Receiver; across both the retained RX write-grant and the retained
\* outgoing grant stay as they were.
C25_RepeatedAck ==
    [][PrxRadioIsr =>
        /\ PrxHandlesCachedRepeat(drv) =>
              /\ drv'.state = "TransmittingRepeatedAck"
              /\ drv'.packetptr = "tx"
              /\ drv'.tx_grant = drv.tx_grant
              /\ drv.tx_grant = Some(Head(drv.atr))
              /\ drv'.atr = drv.atr /\ drv'.rta = drv.rta
              /\ drv'.rx_grant = drv.rx_grant
              /\ drv'.txaddress = drv.rxmatch
        /\ (drv.state = "TransmittingRepeatedAck" /\ drv.events_disabled) =>
              /\ obs'.ret = "Ok"
              /\ drv'.state = "Receiver"
              /\ drv'.packetptr = "rx"
              /\ drv.rx_grant # None /\ drv'.rx_grant = drv.rx_grant
              /\ drv'.tx_grant = drv.tx_grant
              /\ drv'.atr = drv.atr /\ drv'.rta = drv.rta]_vars

\* the repeated ACK with the retained payload on pipe 1 has been sent and the
\* receiver is listening again
C25_Witness ==
    /\ obs.kind = "RepeatedAck" /\ obs.ret = "Ok"
    /\ drv.state = "Receiver" /\ drv.radio_hw = "rx"
    /\ drv.tx_grant # None /\ drv.cached_pipe = 1 /\ drv.rxmatch = 1
    /\ drv.rx_grant # None

\* the invocation handles a CRC-ok, non-repeated, ack-requesting packet
PrxHandlesNewAckRx(s) ==
    PrxHandlesGoodRx(s) /\ ~Repeated(s) /\ ~s.rxbuf.no_ack

\* C26: PRX ACK payload lifetime.  The invocation that handles the end of an
\* ACK transmission releases nothing and, when it completes the reception
\* (complete_rx_ack), keeps the outgoing grant; a frame
\* leaves the app->radio queue only in the invocation that handles a
\* non-repeated ack-requesting packet, one frame at a time, the retained head;
\* and that invocation does release a head frame already sent as ACK payload
\* before it takes the next frame.
C26_AckPayloadLifetime ==
    [][PrxRadioIsr =>
        /\ PrxHandlesAckSent(drv) =>
              /\ drv'.atr = drv.atr
              /\ obs'.ret = "Ok" => drv'.tx_grant = drv.tx_grant
        /\ drv'.atr # drv.atr =>
              /\ PrxHandlesNewAckRx(drv)
              /\ drv.tx_grant = Some(Head(drv.atr))
              /\ drv'.atr = Tail(drv.atr)
        /\ (PrxHandlesNewAckRx(drv) /\ obs.acked) =>
              /\ drv'.atr = Tail(drv.atr)
              /\ drv'.tx_grant = IF drv'.atr = <<>> THEN None
                                 ELSE Some(Head(drv'.atr))]_vars

\* C27: per-pipe duplicate state.  The invocation that handles a CRC-ok,
\* non-repeated reception on pipe p sets last_crc[p] and last_pid[p] to the
\* packet's crc and pid and leaves the entries of every other pipe as they
\* were; the invocation that handles a repeated or a bad-CRC reception
\* changes no entry and commits nothing.
C27_PerPipeDuplicateState ==
    [][PrxRadioIsr =>
        /\ (PrxHandlesRx(drv) /\ drv.crcstatus /\ ~Repeated(drv)) =>
              /\ drv'.last_crc = [drv.last_crc EXCEPT ![drv.rxmatch] = drv.rxcrc]
              /\ drv'.last_pid = [drv.last_pid EXCEPT ![drv.rxmatch] = drv.rxbuf.pid]
        /\ (PrxHandlesRx(drv) /\ (~drv.crcstatus \/ Repeated(drv))) =>
              /\ drv'.last_crc = drv.last_crc /\ drv'.last_pid = drv.last_pid
              /\ drv'.rta = drv.rta]_vars

\* C28: short-cut invariant.  In every reachable state of either role the
\* disabled->rxen and disabled->txen short-cuts are not both enabled; stop()
\* leaves both disabled, and so they are in the states entered through stop()
\* (Disabled, IdleRx, TransmitterWaitRetransmit); in the PTX states
\* disabled->txen is never enabled and disabled->rxen is enabled only in
\* TransmitterTx, between transmit(ack = true) of the retained frame and
\* prepare_for_ack or stop.
C28_ShortcutInvariant ==
    /\ ~(drv.shorts_rxen /\ drv.shorts_txen)
    /\ ~stop(drv).shorts_rxen /\ ~stop(drv).shorts_txen
    /\ drv.state \in {"Disabled", "IdleRx", "TransmitterWaitRetransmit"}
          => ~drv.shorts_rxen /\ ~drv.shorts_txen
    /\ drv.state \in PtxStates =>
          /\ ~drv.shorts_txen
          /\ drv.shorts_rxen =>
                /\ drv.state = "TransmitterTx"
                /\ drv.tx_grant # None /\ ~Unwrap(drv.tx_grant).no_ack
                /\ drv.rx_grant = None

\* PRX is sending an ACK with the turn-around to reception armed and the
\* turn-around to transmission switched off
C28_Witness ==
    /\ drv.state = "TransmittingAck"
    /\ drv.shorts_rxen /\ ~drv.shorts_txen
    /\ drv.radio_hw = "tx"
    /\ drv.rta # <<>>

\* C29: timer arming.  The invocation of radio_interrupt that enters
\* TransmitterWaitAck arms the retransmit compare with retransmit_delay -
\* RAMP_UP_TIME and the ack-timeout compare with wait_for_ack_timeout +
\* RAMP_UP_TIME; for every Config accepted by ConfigBuilder::check both are
\* the mathematical values: no underflow, no overflow beyond 65535, no panic.
C29_TimerArming ==
    [][(PtxRadioIsr /\ drv.state = "TransmitterTx"
           /\ drv'.state = "TransmitterWaitAck") =>
          /\ obs'.ret = "Ok"
          /\ drv'.inten0 /\ drv'.inten1 /\ drv'.timer_run
          /\ drv'.cc0 = drv.config.retransmit_delay - RAMP_UP_TIME
          /\ drv'.cc1 = drv.config.wait_for_ack_timeout + RAMP_UP_TIME
          /\ drv'.cc0 \in 0 .. 65535 /\ drv'.cc1 \in 0 .. 65535]_vars

\* C30: try_release is rejected, the three handles coming back with the
\* queues and the state machine as they were, unless both queues are empty and
\* the state machine is in Disabled; it is rejected in every PTX and PRX state
\* and while committed frames are queued.
C30_TryReleaseQuiescent ==
    [][(TryRelease
          /\ ~(drv.state = "Disabled" /\ drv.atr = <<>> /\ drv.rta = <<>>)) =>
          /\ obs'.ret = "Err"
          /\ drv'.split /\ drv'.state = drv.state
          /\ drv'.atr = drv.atr /\ drv'.rta = drv.rta]_vars

\* C31: for every Config accepted by ConfigBuilder::check the ack-timeout
\* deadline is strictly earlier than the retransmit deadline armed by the same
\* invocation, wait_for_ack_timeout + RAMP_UP_TIME < retransmit_delay -
\* RAMP_UP_TIME; the retransmit compare never fires in TransmitterWaitAck.
C31_AckDeadlineFirst ==
    [][/\ (PtxRadioIsr /\ drv.state = "TransmitterTx"
             /\ drv'.state = "TransmitterWaitAck") =>
            /\ drv.config.wait_for_ack_timeout + RAMP_UP_TIME
                  < drv.config.retransmit_delay - RAMP_UP_TIME
            /\ drv'.cc1 < drv'.cc0
       /\ HwCompareRetransmit => drv.state # "TransmitterWaitAck"]_vars

\* C32: whenever the PTX radio_interrupt returns with the state
\* TransmitterWaitRetransmit a timer event is still to come: the retransmit
\* compare interrupt is enabled with the timer running, or the timer flag or a
\* timer interrupt is already pending.
C32_NoWaitRetransmitDeadlock ==
    [][(PtxRadioIsr /\ drv'.state = "TransmitterWaitRetransmit") =>
          \/ drv'.inten0 /\ drv'.timer_run
          \/ drv'.timer_flag
          \/ TimerIrqPending(drv')]_vars

\* C33: InternalError is unreachable: no radio_interrupt invocation, in either
\* role, returns Err(InternalError); check_ack, check_packet and
\* complete_rx_ack(None) always find the grants they need.
C33_InternalErrorUnreachable == obs.ret # "InternalError"

\* C34: PRX: the first CRC-ok packet handled after initialisation, which is
\* the first on its pipe, is never classified as repeated, whatever its crc
\* and pid: check_packet returns neither RepeatedAck nor RepeatedNoAck.
C34_FirstPacketNotRepeated ==
    [][(PrxRadioIsr /\ PrxHandlesRx(drv) /\ drv.crcstatus /\ obs.kind = "none")
          => obs'.kind \notin {"RepeatedAck", "RepeatedNoAck"}]_vars

\* C35: for every u8 maximum_transmit_attempts the attempts counter neither
\* overflows nor wraps: the invocation that handles an ack timeout of a frame
\* counts one attempt more while attempts < maximum_transmit_attempts, and
\* with the limit reached it drops the frame with MaximumAttempts; with the
\* limit 0 that is the first timeout, after one transmission.
C35_AttemptsCounter ==
    [][(AttemptsRadioIsr /\ PtxHandlesTimeout(drv)) =>
          /\ obs'.ret # "panic"
          /\ IF drv.attempts < drv.config.maximum_transmit_attempts
             THEN /\ drv'.attempts = drv.attempts + 1
                  /\ drv'.state = "TransmitterWaitRetransmit"
             ELSE /\ obs'.ret = "MaximumAttempts"
                  /\ drv'.attempts = 0
                  /\ drv'.atr = Tail(drv.atr)]_vars

\* C36: whenever the PTX radio_interrupt returns, Ok or Err, with the state
\* IdleTx, attempts is 0, and after every return attempts <=
\* maximum_transmit_attempts: a frame retried after IncomingQueueFull starts
\* with a full retransmission budget.
C36_AttemptsReset ==
    [][PtxRadioIsr =>
          /\ drv'.state = "IdleTx" => drv'.attempts = 0
          /\ drv'.attempts <= drv'.config.maximum_transmit_attempts]_vars

\* radio_interrupt has just refused a frame with IncomingQueueFull: IdleTx,
\* the frame still queued for the retry, attempts 0
C36_Witness ==
    /\ obs.ret = "IncomingQueueFull" /\ drv.state = "IdleTx"
    /\ drv.atr # <<>> /\ drv.attempts = 0

\* C37: PTX grant / state correspondence.  After every radio_interrupt return
\* the radio wrapper holds a TX read-grant iff the state is TransmitterTx,
\* TransmitterTxNoAck or TransmitterWaitAck, and an RX write-grant iff the
\* state is TransmitterWaitAck; in IdleTx and TransmitterWaitRetransmit it
\* holds neither.
C37_GrantStateCorrespondence ==
    [][(PtxRadioIsr /\ obs'.ret # "panic") =>
          /\ drv'.tx_grant # None <=>
                drv'.state \in {"TransmitterTx", "TransmitterTxNoAck",
                                "TransmitterWaitAck"}
          /\ drv'.rx_grant # None <=> drv'.state = "TransmitterWaitAck"]_vars

\* radio_interrupt has just handled an ack timeout: the frame waits for its
\* retransmission, still queued, and the radio wrapper holds no grant
C37_Witness ==
    /\ obs.ret = "Ok" /\ drv.state = "TransmitterWaitRetransmit"
    /\ drv.atr # <<>> /\ drv.tx_grant = None /\ drv.rx_grant = None

\* C38: PRX: an outgoing frame is sent as ACK payload only on the pipe named
\* in its own header: when the invocation that handles an ack-requesting
\* packet received on pipe q points the radio at a queued frame for the ACK,
\* the pipe field of that frame is q.
C38_AckPayloadPipe ==
    [][(PrxRadioIsr /\ PrxHandlesRx(drv) /\ drv.crcstatus /\ ~drv.rxbuf.no_ack
           /\ obs'.kind \in {"Ack", "RepeatedAck"}
           /\ drv'.packetptr = "tx" /\ drv'.tx_grant # None)
          => Unwrap(drv'.tx_grant).pipe = drv.rxmatch]_vars

\* C39: try_release is all-or-nothing: it returns Ok with both queues released,
\* or Err with the handles, both queues still split and every committed frame
\* still queued in its original order; a queue that was released alone and
\* split again has lost no frame.
C39_TryReleaseAllOrNothing ==
    [][TryRelease =>
          IF obs'.ret = "Ok" THEN ~drv'.split
          ELSE /\ drv'.split
               /\ drv'.atr = drv.atr
               /\ drv'.rta = drv.rta]_vars

\* C40: frame well-formedness.  Every frame committed to the app->radio queue
\* through grant_packet, update_header, to_commit, commit, commit_all and drop
\* is exactly 4 + its length byte long, its length is at most 252 and at most
\* the payload capacity of the grant it was written in, its pipe is at most 7
\* and its pid at most 3.
C40_FrameWellFormed ==
    \A i \in 1 .. Len(app.queue) :
       LET f == app.queue[i]
       IN  /\ f.size = HEADER_SIZE + f.header.length
           /\ f.header.length <= 252
           /\ f.header.length <= f.cap
           /\ f.header.pipe <= 7
           /\ f.header.pid <= 3
====
